---- MODULE Spec2Model ----
(***************************************************************************)
(* A model of the memento diary backend (FastAPI + SQLAlchemy):            *)
(*   - save_event and its image-list bookkeeping       (routes.py 190-310) *)
(*   - the retained-URL -> thumbnail-URL conversion    (routes.py 281-296) *)
(*   - update_goal / create_goal / delete_goal         (routes.py 656-783) *)
(*   - special days and get_upcoming_special_days      (routes.py 493-632) *)
(*   - the reads get_events, get_goals, get_special_days                   *)
(*   - credentials, register, change_password          (auth.py, routes.py)*)
(* Strings that the code takes apart (URLs, ISO dates) are sequences of    *)
(* one-character strings; dates are triples <<year, month, day>>.          *)
(***************************************************************************)
EXTENDS Integers, Sequences, FiniteSets, TLC

VARIABLES
    users,        \* table users
    today,        \* date.today(): the server's calendar date
    events,       \* table events: a set of rows
    nextEventId,  \* autoincrement of events.id
    files,        \* files present under uploads/originals and uploads/thumbnails
    nextUuid,     \* source of uuid.uuid4() names
    sess,         \* per request slot: the save_event request in flight
    last,         \* the response of the request that completed last
    goals,        \* table goals
    specialDays,  \* table special_days
    probe,        \* the pure-function harness: an input and the value computed
    handles       \* database sessions: how many were made, which are open

vars == <<users, today, events, nextEventId, files, nextUuid, sess, last,
          goals, specialDays, probe, handles>>

eventVars == <<events, nextEventId, files, nextUuid, sess>>

(***************************************************************************)
(* Bounds of the model                                                     *)
(***************************************************************************)
MaxUploads == 2    \* image files processed in one behaviour
MaxTicks == 1      \* midnights passed in one behaviour
NumWorkers == 2    \* worker processes serving save_event side by side
MaxTail == 3       \* characters after the directory part of a probed URL
MaxGoals == 2      \* rows of the goals table
MaxDays == 2       \* rows of the special_days table
MaxRows == 2       \* rows of all tables when several tables are in use
MaxNum == 1        \* numerators of the EXIF rationals probed
MaxDen == 1        \* denominators of the EXIF rationals probed, from 0
MaxRequests == 3   \* requests served with a session in one behaviour

(***************************************************************************)
(* Python values                                                           *)
(***************************************************************************)
None == "None"
NoDate == <<>>
NullText == [kind |-> "null"]
NoResponse == [op |-> "none"]

(***************************************************************************)
(* str: substring test, split, rsplit, replace                             *)
(***************************************************************************)
\* s[i..i+Len(pat)-1] = pat
MatchAt(s, pat, i) ==
    /\ i + Len(pat) - 1 <= Len(s)
    /\ \A k \in 1..Len(pat) : s[i + k - 1] = pat[k]

\* pat in s
Contains(s, pat) == \E i \in 1..(Len(s) + 1) : MatchAt(s, pat, i)

\* position of the last occurrence of the character c in s, 0 when absent
LastIndexOf(s, c) ==
    IF \E i \in 1..Len(s) : s[i] = c
    THEN CHOOSE i \in 1..Len(s) : s[i] = c /\ \A j \in (i + 1)..Len(s) : s[j] # c
    ELSE 0

\* s.split(c)[-1]
LastSegment(s, c) == SubSeq(s, LastIndexOf(s, c) + 1, Len(s))

\* s.rsplit(c, 1)[0]
BeforeLast(s, c) ==
    IF LastIndexOf(s, c) = 0 THEN s ELSE SubSeq(s, 1, LastIndexOf(s, c) - 1)

RECURSIVE ReplaceFrom(_, _, _, _)
\* the tail of s.replace(old, new) from position i on, old non-empty
ReplaceFrom(s, old, new, i) ==
    IF i > Len(s) THEN <<>>
    ELSE IF MatchAt(s, old, i) THEN new \o ReplaceFrom(s, old, new, i + Len(old))
    ELSE <<s[i]>> \o ReplaceFrom(s, old, new, i + 1)

RECURSIVE Interleave(_, _, _)
\* str.replace with an empty pattern puts new before every character and at the end
Interleave(s, new, i) ==
    IF i > Len(s) THEN new
    ELSE new \o <<s[i]>> \o Interleave(s, new, i + 1)

\* s.replace(old, new): every non-overlapping occurrence, left to right
Replace(s, old, new) ==
    IF old = <<>> THEN Interleave(s, new, 1) ELSE ReplaceFrom(s, old, new, 1)

(***************************************************************************)
(* The naming convention of stored images                                  *)
(***************************************************************************)
Slash == "/"
Dot == "."
OriginalsSeg == <<"/", "o", "r", "i", "g", "i", "n", "a", "l", "s", "/">>
ThumbnailsSeg == <<"/", "t", "h", "u", "m", "b", "n", "a", "i", "l", "s", "/">>
StaticPrefix == <<"/", "s", "t", "a", "t", "i", "c">>
ThumbSuffix == <<"_", "t", "h", "u", "m", "b", ".", "j", "p", "g">>

\* thumb_url of save_event's loop over keep_images_list
ThumbUrl(img_url) ==
    IF Contains(img_url, OriginalsSeg)
    THEN LET filename == LastSegment(img_url, Slash)
             name_without_ext ==
                 IF Contains(filename, <<Dot>>) THEN BeforeLast(filename, Dot)
                 ELSE filename
             thumb_filename == name_without_ext \o ThumbSuffix
         IN Replace(Replace(img_url, OriginalsSeg, ThumbnailsSeg),
                    filename, thumb_filename)
    ELSE img_url

(***************************************************************************)
(* datetime.date                                                           *)
(***************************************************************************)
IsLeap(y) == (y % 4 = 0) /\ ((y % 100 # 0) \/ (y % 400 = 0))

DaysInMonth(y, m) ==
    IF m = 2 THEN (IF IsLeap(y) THEN 29 ELSE 28)
    ELSE IF m \in {4, 6, 9, 11} THEN 30 ELSE 31

\* date(y, m, d) returns a date; otherwise it raises ValueError
ValidDate(y, m, d) ==
    /\ 1 <= y /\ y <= 9999
    /\ 1 <= m /\ m <= 12
    /\ 1 <= d /\ d <= DaysInMonth(y, m)

\* a < b on dates
DateLt(a, b) ==
    \/ a[1] < b[1]
    \/ a[1] = b[1] /\ a[2] < b[2]
    \/ a[1] = b[1] /\ a[2] = b[2] /\ a[3] < b[3]

DateLe(a, b) == a = b \/ DateLt(a, b)

RECURSIVE DaysBeforeMonth(_, _)
DaysBeforeMonth(y, m) ==
    IF m = 1 THEN 0 ELSE DaysBeforeMonth(y, m - 1) + DaysInMonth(y, m - 1)

\* date.toordinal(): (a - b).days = Ordinal(a) - Ordinal(b)
Ordinal(dt) ==
    LET y == dt[1] - 1
    IN y * 365 + (y \div 4) - (y \div 100) + (y \div 400)
       + DaysBeforeMonth(dt[1], dt[2]) + dt[3]

Digits == <<"0", "1", "2", "3", "4", "5", "6", "7", "8", "9">>
DigitChar(n) == Digits[n + 1]

\* date.isoformat(): "%04d-%02d-%02d"
IsoFormat(dt) ==
    << DigitChar(dt[1] \div 1000), DigitChar((dt[1] \div 100) % 10),
       DigitChar((dt[1] \div 10) % 10), DigitChar(dt[1] % 10), "-",
       DigitChar(dt[2] \div 10), DigitChar(dt[2] % 10), "-",
       DigitChar(dt[3] \div 10), DigitChar(dt[3] % 10) >>

\* code point order of the characters of an ISO date
CharRank(c) ==
    IF c = "-" THEN 0 ELSE (CHOOSE n \in 0..9 : Digits[n + 1] = c) + 1

RECURSIVE StrLtFrom(_, _, _)
\* a < b on str, compared from position i on
StrLtFrom(a, b, i) ==
    IF i > Len(b) THEN FALSE
    ELSE IF i > Len(a) THEN TRUE
    ELSE IF a[i] = b[i] THEN StrLtFrom(a, b, i + 1)
    ELSE CharRank(a[i]) < CharRank(b[i])

StrLt(a, b) == StrLtFrom(a, b, 1)

\* A date text of a request: fmt says whether it has the shape digits-digits-digits.
\* datetime.strptime(s, "%Y-%m-%d") and date.fromisoformat(s) raise ValueError
\* for any other shape and for a day that is not on the calendar.
DateParses(s) == s.fmt /\ ValidDate(s.y, s.m, s.d)
ParsedDate(s) == <<s.y, s.m, s.d>>

(***************************************************************************)
(* Image upload: validate_image_size and process_image                     *)
(***************************************************************************)
MAX_IMAGE_SIZE_MB == 10

NoUpload == [absent |-> TRUE]

Lower(c) ==
    CASE c = "J" -> "j" [] c = "P" -> "p" [] c = "G" -> "g" [] c = "N" -> "n"
      [] OTHER -> c

LowerStr(s) == [i \in 1..Len(s) |-> Lower(s[i])]

allowed_extensions ==
    { <<"j", "p", "g">>, <<"j", "p", "e", "g">>, <<"p", "n", "g">>,
      <<"w", "e", "b", "p">> }

\* ext of process_image
FileExt(filename) ==
    IF Contains(filename, <<Dot>>) THEN LowerStr(LastSegment(filename, Dot))
    ELSE <<>>

\* str(uuid.uuid4()): a name never handed out before
UuidName(n) == <<"e", DigitChar(n)>>

OriginalUrl(n, ext) == StaticPrefix \o OriginalsSeg \o UuidName(n) \o <<Dot>> \o ext
ThumbnailUrl(n) == StaticPrefix \o ThumbnailsSeg \o UuidName(n) \o ThumbSuffix

\* validate_image_size raises HTTPException(400)
TooLarge(file) == file.size > MAX_IMAGE_SIZE_MB * 1024 * 1024

\* process_image(file) with n the uuid drawn: the response status, the paths
\* returned and the files it leaves on disk. fault says where PIL raises:
\* "open" in Image.open, "thumb" in thumb_img.save after the original was saved.
ProcessImage(file, n) ==
    IF FileExt(file.filename) \notin allowed_extensions
    THEN [status |-> 400, detail |-> "unsupported_format", written |-> {},
          drew |-> 0]
    ELSE IF file.fault # "none"
    THEN [status |-> 500, detail |-> "processing_failed", written |-> {},
          drew |-> 1]
    ELSE [status |-> 200, detail |-> "ok",
          original |-> OriginalUrl(n, FileExt(file.filename)),
          thumbnail |-> ThumbnailUrl(n),
          written |-> {OriginalUrl(n, FileExt(file.filename)), ThumbnailUrl(n)},
          drew |-> 1]

\* one iteration of "for img in all_images"; acc.ok is FALSE once an
\* exception has left the loop
ImageStep(acc, img) ==
    IF ~acc.ok THEN acc
    ELSE IF TooLarge(img)
    THEN [acc EXCEPT !.ok = FALSE, !.status = 400, !.detail = "too_large"]
    ELSE LET paths == ProcessImage(img, acc.nextUuid)
         IN IF paths.status # 200
            THEN [acc EXCEPT !.ok = FALSE, !.status = paths.status,
                             !.detail = paths.detail,
                             !.nextUuid = acc.nextUuid + paths.drew]
            ELSE [acc EXCEPT
                    !.original_paths = Append(acc.original_paths, paths.original),
                    !.thumbnail_paths = Append(acc.thumbnail_paths, paths.thumbnail),
                    !.files = acc.files \cup paths.written,
                    !.nextUuid = acc.nextUuid + paths.drew]

RECURSIVE ImageLoop(_, _, _)
ImageLoop(all_images, i, acc) ==
    IF i > Len(all_images) THEN acc
    ELSE ImageLoop(all_images, i + 1, ImageStep(acc, all_images[i]))

(***************************************************************************)
(* keep_images: the JSON text of the URLs to retain                        *)
(***************************************************************************)
\* json.dumps of a list of str
JsonDumps(paths) ==
    [kind |-> "json",
     value |-> [t |-> "list",
                items |-> [i \in 1..Len(paths) |-> [t |-> "str", s |-> paths[i]]]]]

\* keep_images_list: a None or empty text is skipped, a text that is no JSON
\* raises JSONDecodeError (ignored), a JSON value that is no list is ignored
KeepImagesList(keep_images) ==
    IF keep_images.kind = "json" /\ keep_images.value.t = "list"
    THEN keep_images.value.items
    ELSE <<>>

\* the thumbnail appended only in the branch of the standard URLs
KeepStepThumbInBranch(acc, img_url) ==
    IF img_url.t = "str"
    THEN [acc EXCEPT
            !.original_paths = Append(acc.original_paths, img_url.s),
            !.thumbnail_paths =
                IF Contains(img_url.s, OriginalsSeg)
                THEN Append(acc.thumbnail_paths, ThumbUrl(img_url.s))
                ELSE acc.thumbnail_paths]
    ELSE acc

\* one iteration of "for img_url in keep_images_list"
KeepStep(acc, img_url) ==
    IF img_url.t = "str"
    THEN [acc EXCEPT
            !.original_paths = Append(acc.original_paths, img_url.s),
            !.thumbnail_paths = Append(acc.thumbnail_paths, ThumbUrl(img_url.s))]
    ELSE acc

RECURSIVE KeepLoop(_, _, _)
KeepLoop(keep_images_list, i, acc) ==
    IF i > Len(keep_images_list) THEN acc
    ELSE KeepLoop(keep_images_list, i + 1, KeepStep(acc, keep_images_list[i]))

\* the fields written as "[]" instead of being cleared
ImageFieldNeverCleared(paths, original_paths) == JsonDumps(paths)

\* image_original / image_thumbnail as assigned before the commit
ImageField(paths, original_paths) ==
    IF original_paths # <<>> THEN JsonDumps(paths) ELSE NullText

(***************************************************************************)
(* save_event                                                              *)
(***************************************************************************)
NoRow == [absent |-> TRUE]
Idle == [pc |-> "idle"]

\* a table created without the constraint
NoUniqueConstraint(evs, user_id, entry_date) == FALSE

\* UniqueConstraint("user_id", "entry_date"): an INSERT of a second row for
\* the pair raises IntegrityError
UniqueViolation(evs, user_id, entry_date) ==
    \E e \in evs : e.user_id = user_id /\ e.entry_date = entry_date

\* mood: str = Form("neutral")
MoodParam(mood) == IF mood = None THEN "neutral" ELSE mood

\* all_images: images wins over the single image
AllImages(req) ==
    IF req.images # <<>> THEN req.images
    ELSE IF req.image # NoUpload THEN <<req.image>>
    ELSE <<>>

\* db.query(Event).filter(user_id, entry_date).first(), kept by the session
\* as the loaded state of the object
EventLookup(evs, req) ==
    LET rows == { e \in evs : /\ e.user_id = req.user
                              /\ e.entry_date = ParsedDate(req.entry_date) }
    IN [pc |-> "looked", req |-> req,
        loaded |-> IF rows = {} THEN NoRow
                   ELSE CHOOSE e \in rows : \A f \in rows : e.id <= f.id]

\* the attribute values save_event assigns to the event object
EventAssigned(req, tdy, original_paths, thumbnail_paths) ==
    [title |-> req.title,
     content |-> req.content,
     mood |-> MoodParam(req.mood),
     updated_at |-> tdy,
     image_original |-> ImageField(original_paths, original_paths),
     image_thumbnail |-> ImageField(thumbnail_paths, original_paths)]

EventColumns ==
    {"title", "content", "mood", "updated_at", "image_original", "image_thumbnail"}

\* a save that adds a row for the date instead of updating the one found
EventUpdatedAddsRow(evs, loaded, new) ==
    evs \cup { [c \in DOMAIN loaded |->
                  IF c \in EventColumns THEN new[c]
                  ELSE IF c = "id" THEN loaded.id + Cardinality(evs)
                  ELSE loaded[c]] }

\* a save that assigns the title and the content only when the request has
\* them: the stored text stays where the request omits it
EventUpdatedMerged(evs, loaded, new) ==
    { IF e.id # loaded.id THEN e
      ELSE [c \in DOMAIN e |->
              IF c \in {"title", "content"} /\ new[c] = None THEN e[c]
              ELSE IF c \in EventColumns /\ new[c] # loaded[c] THEN new[c]
              ELSE e[c]]
      : e \in evs }

\* the flush of a loaded object: UPDATE ... WHERE id = loaded.id sets the
\* columns whose assigned value differs from the loaded one
EventUpdated(evs, loaded, new) ==
    { IF e.id # loaded.id THEN e
      ELSE [c \in DOMAIN e |->
              IF c \in EventColumns /\ new[c] # loaded[c] THEN new[c] ELSE e[c]]
      : e \in evs }

\* the flush of a new object: INSERT
EventInserted(evs, nid, req, new) ==
    evs \cup { [id |-> nid, user_id |-> req.user,
                entry_date |-> ParsedDate(req.entry_date),
                title |-> new.title, content |-> new.content, mood |-> new.mood,
                updated_at |-> new.updated_at,
                image_original |-> new.image_original,
                image_thumbnail |-> new.image_thumbnail] }

\* save_event from the assignment of the fields to the response, for the
\* session state slot: the tables and files afterwards and the response
SaveEventFinish(evs, fls, uuid, nid, slot, tdy) ==
    LET req == slot.req
        up == ImageLoop(AllImages(req), 1,
                        [ok |-> TRUE, status |-> 200, detail |-> "ok",
                         original_paths |-> <<>>, thumbnail_paths |-> <<>>,
                         files |-> fls, nextUuid |-> uuid])
        lists == KeepLoop(KeepImagesList(req.keep_images), 1,
                          [original_paths |-> up.original_paths,
                           thumbnail_paths |-> up.thumbnail_paths])
        new == EventAssigned(req, tdy, lists.original_paths, lists.thumbnail_paths)
        base == [events |-> evs, nextEventId |-> nid, files |-> up.files,
                 nextUuid |-> up.nextUuid,
                 resp |-> [op |-> "save_event", status |-> up.status,
                           detail |-> up.detail, req |-> req,
                           existed |-> slot.loaded # NoRow,
                           uploaded |-> up.original_paths,
                           repeat |-> FALSE]]
    IN IF ~up.ok THEN base
       ELSE IF slot.loaded # NoRow
       THEN [base EXCEPT !.events = EventUpdated(evs, slot.loaded, new)]
       ELSE IF UniqueViolation(evs, req.user, ParsedDate(req.entry_date))
       THEN [base EXCEPT !.resp.status = 500, !.resp.detail = "integrity_error"]
       ELSE [base EXCEPT !.events = EventInserted(evs, nid, req, new),
                         !.nextEventId = nid + 1]

BadDateResponse(op) == [op |-> op, status |-> 400, detail |-> "bad_date"]

\* the uuid names still free cover the request's uploads
UuidsLeft(req) == nextUuid + Len(AllImages(req)) <= MaxUploads

\* history: the request served before this one was the same, and succeeded
Repeats(req) ==
    last.op = "save_event" /\ last.status = 200 /\ last.req = req

\* save_event served alone, from the first line to the response
SaveEvent(req) ==
    /\ UuidsLeft(req)
    /\ IF ~DateParses(req.entry_date)
       THEN /\ last' = BadDateResponse("save_event")
            /\ UNCHANGED <<events, nextEventId, files, nextUuid>>
       ELSE \E out \in {SaveEventFinish(events, files, nextUuid, nextEventId,
                                         EventLookup(events, req), today)} :
               /\ events' = out.events
               /\ nextEventId' = out.nextEventId
               /\ files' = out.files
               /\ nextUuid' = out.nextUuid
               /\ last' = [out.resp EXCEPT !.repeat = Repeats(req)]
    /\ UNCHANGED <<users, today, sess, goals, specialDays, probe, handles>>

\* save_event in a worker process r that other workers interleave with:
\* the date is parsed and the event looked up
SaveEventBegin(r, req) ==
    /\ sess[r] = Idle
    /\ UuidsLeft(req)
    /\ IF ~DateParses(req.entry_date)
       THEN /\ last' = BadDateResponse("save_event")
            /\ UNCHANGED sess
       ELSE /\ sess' = [sess EXCEPT ![r] = EventLookup(events, req)]
            /\ UNCHANGED last
    /\ UNCHANGED <<users, today, events, nextEventId, files, nextUuid,
                   goals, specialDays, probe, handles>>

\* ... and the rest of the handler up to db.commit() and the response
SaveEventCommit(r) ==
    /\ sess[r] # Idle
    /\ \E out \in {SaveEventFinish(events, files, nextUuid, nextEventId,
                                     sess[r], today)} :
          /\ events' = out.events
          /\ nextEventId' = out.nextEventId
          /\ files' = out.files
          /\ nextUuid' = out.nextUuid
          /\ last' = out.resp
    /\ sess' = [sess EXCEPT ![r] = Idle]
    /\ UNCHANGED <<users, today, goals, specialDays, probe, handles>>

(***************************************************************************)
(* The clock                                                               *)
(***************************************************************************)
NextDay(dt) ==
    IF dt[3] < DaysInMonth(dt[1], dt[2]) THEN <<dt[1], dt[2], dt[3] + 1>>
    ELSE IF dt[2] < 12 THEN <<dt[1], dt[2] + 1, 1>>
    ELSE <<dt[1] + 1, 1, 1>>

FirstDay == <<2024, 1, 15>>

\* midnight passes
Tick ==
    /\ Ordinal(today) < Ordinal(FirstDay) + MaxTicks
    /\ today' = NextDay(today)
    /\ UNCHANGED <<users, events, nextEventId, files, nextUuid, sess, last,
                   goals, specialDays, probe, handles>>

(***************************************************************************)
(* Requests                                                                *)
(***************************************************************************)
Users == {1, 2}
Workers == 1..NumWorkers

D15 == [fmt |-> TRUE, y |-> 2024, m |-> 1, d |-> 15]
D16 == [fmt |-> TRUE, y |-> 2024, m |-> 1, d |-> 16]
Feb30 == [fmt |-> TRUE, y |-> 2024, m |-> 2, d |-> 30]
NotADate == [fmt |-> FALSE]

GoodJpg == [filename |-> <<"a", ".", "J", "P", "G">>, size |-> 10485760, fault |-> "none"]
GoodPng == [filename |-> <<"b", ".", "p", "n", "g">>, size |-> 2048, fault |-> "none"]
Oversized == [filename |-> <<"c", ".", "j", "p", "g">>, size |-> 10485761, fault |-> "none"]
TextFile == [filename |-> <<"n", ".", "t", "x", "t">>, size |-> 2048, fault |-> "none"]
Corrupt == [filename |-> <<"d", ".", "j", "p", "g">>, size |-> 2048, fault |-> "thumb"]

\* /static/originals/k1.png and /media/x.png
UrlK == StaticPrefix \o OriginalsSeg \o <<"k", "1", ".", "p", "n", "g">>
UrlM == <<"/", "m", "e", "d", "i", "a", "/", "x", ".", "p", "n", "g">>

JStr(u) == [t |-> "str", s |-> u]
JNum == [t |-> "num", n |-> 7]
JNull == [t |-> "null"]
KeepJson(items) == [kind |-> "json", value |-> [t |-> "list", items |-> items]]
KeepObject == [kind |-> "json", value |-> [t |-> "obj"]]
KeepNotJson == [kind |-> "raw"]
KeepEmpty == [kind |-> "empty"]

\* the text fields of a request: all omitted, all given, the title alone
TextInputs ==
    { [title |-> None, content |-> None, mood |-> None],
      [title |-> "Trip", content |-> "Sea", mood |-> "happy"],
      [title |-> "Trip", content |-> None, mood |-> None] }

\* requests that vary the text fields
SaveRequests ==
    { [user |-> u, entry_date |-> D15, title |-> tx.title, content |-> tx.content,
       mood |-> tx.mood, image |-> im.image, images |-> <<>>,
       keep_images |-> im.keep]
      : u \in Users, tx \in TextInputs,
        im \in { [image |-> NoUpload, keep |-> NullText],
                 [image |-> NoUpload, keep |-> KeepJson(<<JStr(UrlK)>>)],
                 [image |-> GoodJpg, keep |-> NullText] } }
    \cup
    { [user |-> 1, entry_date |-> Feb30, title |-> "Trip", content |-> None,
       mood |-> None, image |-> NoUpload, images |-> <<>>,
       keep_images |-> NullText] }

\* the uploads of a request: images wins over image
UploadInputs ==
    { [image |-> NoUpload, images |-> <<>>],
      [image |-> GoodPng, images |-> <<>>],
      [image |-> GoodPng, images |-> <<GoodJpg>>],
      [image |-> NoUpload, images |-> <<GoodJpg, GoodPng>>],
      [image |-> NoUpload, images |-> <<GoodPng, Oversized>>],
      [image |-> NoUpload, images |-> <<TextFile>>],
      [image |-> NoUpload, images |-> <<GoodJpg, Corrupt>>] }

KeepInputs ==
    { NullText, KeepEmpty, KeepNotJson, KeepObject, KeepJson(<<>>),
      KeepJson(<<JStr(UrlK)>>), KeepJson(<<JNum, JStr(UrlM)>>),
      KeepJson(<<JStr(UrlM), JNull, JStr(UrlK)>>) }

\* requests that vary the uploads and the keep list
ImageRequests ==
    { [user |-> 1, entry_date |-> dt, title |-> "Trip", content |-> None,
       mood |-> None, image |-> up.image, images |-> up.images,
       keep_images |-> keep]
      : dt \in {D15}, up \in UploadInputs, keep \in KeepInputs }
    \cup
    { [user |-> 1, entry_date |-> NotADate, title |-> "Trip", content |-> None,
       mood |-> None, image |-> GoodPng, images |-> <<>>,
       keep_images |-> NullText] }

\* requests that race for a (user, date) pair
RaceRequests ==
    [user : Users, entry_date : {D15},
     title : {None, "Trip"}, content : {None}, mood : {None},
     image : {NoUpload}, images : {<<>>},
     keep_images : {NullText}]

(***************************************************************************)
(* The users table and credentials                                         *)
(***************************************************************************)
\* pwd_context.hash(password): a bcrypt hash made with a random salt
get_password_hash(password, salt) ==
    [scheme |-> "bcrypt", salt |-> salt, digest |-> password]

\* pwd_context.verify(plain_password, hashed_password)
verify_password(plain_password, hashed_password) ==
    hashed_password.digest = plain_password

Salts == {1, 2}

DEFAULT_ADMIN_USERNAME == "admin"
DEFAULT_ADMIN_PASSWORD == <<"a", "d", "m", "i", "n", "1", "2", "3">>

\* a row of users as User(...) creates it
NewUser(id, username, hashed_password, is_admin, dob) ==
    [id |-> id, username |-> username, hashed_password |-> hashed_password,
     is_admin |-> is_admin, dob |-> dob, life_expectancy |-> 100,
     nickname |-> None, avatar_url |-> None]

\* create_initial_admin on an empty table, run by lifespan at start
InitialUsers ==
    { NewUser(1, DEFAULT_ADMIN_USERNAME,
              get_password_hash(DEFAULT_ADMIN_PASSWORD, 1), TRUE, <<1990, 1, 1>>) }

(***************************************************************************)
(* Specifications                                                          *)
(***************************************************************************)
NoProbe == [fn |-> "none"]

\* SessionLocal(): a new session, open until its close()
SessionOpened(h) == [made |-> h.made + 1, open |-> h.open \cup {h.made + 1}]

\* a session that is never closed
SessionKeptOpen(h, db) == h

\* db.close()
SessionClosed(h, db) == [h EXCEPT !.open = @ \ {db}]

\* the sessions after lifespan has started the application: the one it made
\* for create_initial_admin is closed
StartedHandles == SessionClosed(SessionOpened([made |-> 0, open |-> {}]), 1)

InitAt(dt) ==
    /\ users = InitialUsers
    /\ today = dt
    /\ events = {}
    /\ nextEventId = 1
    /\ files = {}
    /\ nextUuid = 0
    /\ sess = [r \in Workers |-> Idle]
    /\ last = NoResponse
    /\ goals = {}
    /\ specialDays = {}
    /\ probe = NoProbe
    /\ handles = StartedHandles

Init == InitAt(FirstDay)

\* one server process: handlers run one at a time
Next ==
    \/ \E req \in SaveRequests : SaveEvent(req)
    \/ Tick

Spec == Init /\ [][Next]_vars

NextImages == \E req \in ImageRequests : SaveEvent(req)

SpecImages == Init /\ [][NextImages]_vars

\* several worker processes on one database
NextRace ==
    \/ \E r \in Workers, req \in RaceRequests : SaveEventBegin(r, req)
    \/ \E r \in Workers : SaveEventCommit(r)

SpecRace == Init /\ [][NextRace]_vars

(***************************************************************************)
(* Goals: create_goal, update_goal, delete_goal                            *)
(***************************************************************************)
\* an Optional field of a request body, a nullable column
Absent == [set |-> FALSE]
Some(v) == [set |-> TRUE, v |-> v]

\* INTEGER PRIMARY KEY of SQLite: one more than the largest id in the table
NewId(rows) ==
    IF rows = {} THEN 1
    ELSE (CHOOSE r \in rows : \A q \in rows : q.id <= r.id).id + 1

\* db.query(Goal).filter(Goal.id == goal_id, Goal.user_id == user).first()
OwnGoals(gs, goal_id, user) == { g \in gs : g.id = goal_id /\ g.user_id = user }

\* completed=true stamps today only on a goal without a completion date
GoalToggledNoStamp(goal, completed, tdy) ==
    [goal EXCEPT !.completed = completed,
                 !.completed_at = IF ~completed THEN NoDate ELSE @]

\* "if goal_update.completed is not None": the flag and the completion date
GoalToggled(goal, completed, tdy) ==
    [goal EXCEPT !.completed = completed,
                 !.completed_at =
                     IF completed /\ goal.completed_at = NoDate THEN tdy
                     ELSE IF ~completed THEN NoDate
                     ELSE @]

\* update_goal without "is not None" before the text: a request without the
\* text stores null
GoalAssignedAll(goal, upd, tdy) ==
    LET g1 == [goal EXCEPT !.text = IF upd.text.set THEN upd.text.v ELSE None]
        g2 == IF upd.completed.set THEN GoalToggled(g1, upd.completed.v, tdy)
              ELSE g1
        bad == upd.completed_at.set /\ ~DateParses(upd.completed_at.v)
        g3 == IF upd.completed_at.set /\ ~bad
              THEN [g2 EXCEPT !.completed_at = ParsedDate(upd.completed_at.v)]
              ELSE g2
        g4 == IF upd.week_year.set THEN [g3 EXCEPT !.week_year = upd.week_year]
              ELSE g3
        g5 == IF upd.week_index.set THEN [g4 EXCEPT !.week_index = upd.week_index]
              ELSE g4
    IN [ok |-> ~bad, goal |-> IF bad THEN g2 ELSE g5]

\* the goal object after the assignments of update_goal; ok is FALSE when
\* date.fromisoformat raised, and the object is then as the raise left it
GoalAssigned(goal, upd, tdy) ==
    LET g1 == IF upd.text.set THEN [goal EXCEPT !.text = upd.text.v] ELSE goal
        g2 == IF upd.completed.set THEN GoalToggled(g1, upd.completed.v, tdy)
              ELSE g1
        bad == upd.completed_at.set /\ ~DateParses(upd.completed_at.v)
        g3 == IF upd.completed_at.set /\ ~bad
              THEN [g2 EXCEPT !.completed_at = ParsedDate(upd.completed_at.v)]
              ELSE g2
        g4 == IF upd.week_year.set THEN [g3 EXCEPT !.week_year = upd.week_year]
              ELSE g3
        g5 == IF upd.week_index.set THEN [g4 EXCEPT !.week_index = upd.week_index]
              ELSE g4
    IN [ok |-> ~bad, goal |-> IF bad THEN g2 ELSE g5]

\* POST /goals
CreateGoal(user, body) ==
    /\ Cardinality(goals) < MaxGoals
    /\ IF body.completed_at.set /\ ~DateParses(body.completed_at.v)
       THEN /\ last' = BadDateResponse("create_goal")
            /\ UNCHANGED goals
       ELSE /\ goals' = goals \cup
                  { [id |-> NewId(goals), user_id |-> user, text |-> body.text,
                     completed |-> body.completed,
                     completed_at |-> IF body.completed_at.set
                                      THEN ParsedDate(body.completed_at.v)
                                      ELSE NoDate,
                     week_year |-> body.week_year,
                     week_index |-> body.week_index,
                     created_at |-> today] }
            /\ last' = [op |-> "create_goal", status |-> 200, detail |-> "ok"]
    /\ UNCHANGED <<users, today, events, nextEventId, files, nextUuid, sess,
                   specialDays, probe, handles>>

\* PUT /goals/{goal_id}
UpdateGoal(user, goal_id, upd) ==
    /\ IF OwnGoals(goals, goal_id, user) = {}
       THEN /\ last' = [op |-> "update_goal", status |-> 404,
                        detail |-> "not_found"]
            /\ UNCHANGED goals
       ELSE \E goal \in OwnGoals(goals, goal_id, user) :
            \E out \in {GoalAssigned(goal, upd, today)} :
               IF ~out.ok
               THEN /\ last' = BadDateResponse("update_goal")
                    /\ UNCHANGED goals
               ELSE /\ goals' = (goals \ {goal}) \cup {out.goal}
                    /\ last' = [op |-> "update_goal", status |-> 200,
                                detail |-> "ok", user |-> user, id |-> goal_id,
                                upd |-> upd, before |-> goal.completed_at]
    /\ UNCHANGED <<users, today, events, nextEventId, files, nextUuid, sess,
                   specialDays, probe, handles>>

\* DELETE /goals/{goal_id}
DeleteGoal(user, goal_id) ==
    /\ IF OwnGoals(goals, goal_id, user) = {}
       THEN /\ last' = [op |-> "delete_goal", status |-> 404,
                        detail |-> "not_found"]
            /\ UNCHANGED goals
       ELSE /\ goals' = goals \ OwnGoals(goals, goal_id, user)
            /\ last' = [op |-> "delete_goal", status |-> 200, detail |-> "ok"]
    /\ UNCHANGED <<users, today, events, nextEventId, files, nextUuid, sess,
                   specialDays, probe, handles>>

D10 == [fmt |-> TRUE, y |-> 2024, m |-> 1, d |-> 10]

GoalBodies ==
    { [text |-> "run", completed |-> FALSE, completed_at |-> Absent,
       week_year |-> Absent, week_index |-> Absent],
      [text |-> "run", completed |-> TRUE, completed_at |-> Some(D10),
       week_year |-> Absent, week_index |-> Absent],
      [text |-> "run", completed |-> TRUE, completed_at |-> Some(Feb30),
       week_year |-> Absent, week_index |-> Absent] }

NoUpdate ==
    [text |-> Absent, completed |-> Absent, completed_at |-> Absent,
     week_year |-> Absent, week_index |-> Absent]

\* updates of the completion flag and date
GoalUpdates ==
    { [NoUpdate EXCEPT !.completed = c, !.completed_at = at]
      : c \in {Absent, Some(TRUE), Some(FALSE)},
        at \in {Absent, Some(D10), Some(NotADate)} }

GoalIds == 1..(MaxGoals + 1)

NextGoals ==
    \/ \E user \in Users, body \in GoalBodies : CreateGoal(user, body)
    \/ \E user \in Users, goal_id \in GoalIds, upd \in GoalUpdates :
          UpdateGoal(user, goal_id, upd)
    \/ \E user \in Users, goal_id \in GoalIds : DeleteGoal(user, goal_id)

SpecGoals == Init /\ [][NextGoals]_vars

\* the row the last update_goal wrote
UpdatedGoal == CHOOSE g \in goals : g.id = last.id /\ g.user_id = last.user

GoalUpdated == last.op = "update_goal" /\ last.status = 200

\* C6: after an update_goal with completed=false the goal's completed_at is
\* null, also when the same request supplied a completed_at.
C6_ToggleToFalseWins ==
    (GoalUpdated /\ last.upd.completed = Some(FALSE))
    => UpdatedGoal.completed_at = NoDate

\* C7: an update_goal with completed=true and no completed_at, on a goal whose
\* completed_at was null, sets completed_at to today and completed to true.
C7_CompletionStamped ==
    (GoalUpdated /\ last.upd.completed = Some(TRUE)
       /\ ~last.upd.completed_at.set /\ last.before = NoDate)
    => UpdatedGoal.completed /\ UpdatedGoal.completed_at = today

\* such a request was served for a goal that had no completion date
C7_Witness ==
    /\ GoalUpdated /\ last.upd.completed = Some(TRUE)
    /\ ~last.upd.completed_at.set /\ last.before = NoDate
    /\ UpdatedGoal.completed_at = today

(***************************************************************************)
(* Special days: create_special_day, get_upcoming_special_days             *)
(***************************************************************************)
\* POST /special-days
CreateSpecialDay(user, body) ==
    /\ Cardinality(specialDays) < MaxDays
    /\ IF ~DateParses(body.date)
       THEN /\ last' = BadDateResponse("create_special_day")
            /\ UNCHANGED specialDays
       ELSE /\ specialDays' = specialDays \cup
                  { [id |-> NewId(specialDays), user_id |-> user,
                     title |-> body.title, date |-> ParsedDate(body.date),
                     type |-> body.type, repeat_yearly |-> body.repeat_yearly,
                     notify_days_before |-> body.notify_days_before,
                     created_at |-> today] }
            /\ last' = [op |-> "create_special_day", status |-> 200,
                        detail |-> "ok"]
    /\ UNCHANGED <<users, today, events, nextEventId, files, nextUuid, sess, goals,
                   probe, handles>>

\* this_year_date <= future_date only: the lower end of the range is not checked
InRangeUpperOnly(tdy, cand, future_date) == DateLe(cand, future_date)

\* today <= this_year_date <= future_date
InRange(tdy, cand, future_date) == DateLe(tdy, cand) /\ DateLe(cand, future_date)

\* the date the loop body tests: this year's month and day, next year's when
\* that has passed and the day repeats; a triple that is not a date when
\* date(...) raised
OccurrenceDate(day, tdy) ==
    LET this_year_date == <<tdy[1], day.date[2], day.date[3]>>
    IN IF ~ValidDate(this_year_date[1], this_year_date[2], this_year_date[3])
       THEN this_year_date
       ELSE IF DateLt(this_year_date, tdy) /\ day.repeat_yearly
       THEN <<tdy[1] + 1, day.date[2], day.date[3]>>
       ELSE this_year_date

\* days_until counted with both ends
UpcomingItemInclusive(day, cand, tdy) ==
    [id |-> day.id, title |-> day.title, date |-> IsoFormat(cand),
     type |-> day.type, repeat_yearly |-> day.repeat_yearly,
     notify_days_before |-> day.notify_days_before,
     days_until |-> Ordinal(cand) - Ordinal(tdy) + 1,
     original_date |-> IsoFormat(day.date)]

UpcomingItem(day, cand, tdy) ==
    [id |-> day.id, title |-> day.title, date |-> IsoFormat(cand),
     type |-> day.type, repeat_yearly |-> day.repeat_yearly,
     notify_days_before |-> day.notify_days_before,
     days_until |-> Ordinal(cand) - Ordinal(tdy),
     original_date |-> IsoFormat(day.date)]

RECURSIVE UpcomingScan(_, _, _, _, _)
\* the for loop over all_special_days; ok is FALSE when date(...) raised
UpcomingScan(rows, i, upcoming, tdy, future_date) ==
    IF i > Len(rows) THEN [ok |-> TRUE, items |-> upcoming]
    ELSE LET cand == OccurrenceDate(rows[i], tdy)
         IN IF ~ValidDate(cand[1], cand[2], cand[3])
            THEN [ok |-> FALSE, items |-> <<>>]
            ELSE UpcomingScan(rows, i + 1,
                     IF InRange(tdy, cand, future_date)
                     THEN Append(upcoming, UpcomingItem(rows[i], cand, tdy))
                     ELSE upcoming,
                     tdy, future_date)

\* the list left in the order of the scan
Unsorted(items) == items

RECURSIVE InsertByDate(_, _, _)
\* item goes behind every element whose key is not greater than its own
InsertByDate(sorted, item, i) ==
    IF i > Len(sorted) THEN Append(sorted, item)
    ELSE IF StrLt(item.date, sorted[i].date)
    THEN SubSeq(sorted, 1, i - 1) \o <<item>> \o SubSeq(sorted, i, Len(sorted))
    ELSE InsertByDate(sorted, item, i + 1)

RECURSIVE SortFrom(_, _, _)
SortFrom(items, i, sorted) ==
    IF i > Len(items) THEN sorted
    ELSE SortFrom(items, i + 1, InsertByDate(sorted, items[i], 1))

\* upcoming.sort(key=lambda x: x["date"]): stable, by the ISO text
SortByDate(items) == SortFrom(items, 1, <<>>)

\* the orders in which .all() can return the caller's rows
QueryOrders(rows) ==
    { o \in [1..Cardinality(rows) -> rows] :
        \A i, j \in 1..Cardinality(rows) : i # j => o[i] # o[j] }

OwnDays(days, user) == { d \in days : d.user_id = user }

ServerError(op, user, days) ==
    [op |-> op, status |-> 500, detail |-> "ValueError", user |-> user,
     days |-> days]

\* GET /special-days/upcoming?days=N
GetUpcoming(user, days) ==
    /\ IF ~ValidDate(today[1], today[2], today[3] + days)
       THEN last' = ServerError("upcoming", user, days)
       ELSE \E rows \in QueryOrders(OwnDays(specialDays, user)) :
            \E out \in {UpcomingScan(rows, 1, <<>>, today,
                                     <<today[1], today[2], today[3] + days>>)} :
               IF ~out.ok
               THEN last' = ServerError("upcoming", user, days)
               ELSE last' = [op |-> "upcoming", status |-> 200, detail |-> "ok",
                             user |-> user, days |-> days,
                             items |-> SortByDate(out.items)]
    /\ UNCHANGED <<users, today, events, nextEventId, files, nextUuid, sess, goals,
                   specialDays, probe, handles>>

Text(y, m, d) == [fmt |-> TRUE, y |-> y, m |-> m, d |-> d]

\* the days a client looks ahead from
UpcomingTodays == { <<2024, 3, 5>>, <<2024, 1, 28>> }

DayDates == { Text(2023, 3, 10), Text(2022, 3, 5), Text(2020, 2, 29),
              Text(2023, 1, 30) }

DayBody(dt, repeat) ==
    [title |-> "day", date |-> dt, type |-> "anniversary",
     repeat_yearly |-> repeat, notify_days_before |-> 0]

DayBodies == { DayBody(dt, repeat) : dt \in DayDates, repeat \in BOOLEAN }

\* user 1 stores every kind of day, user 2 one day and one rejected date
DayRequests ==
    ({1} \X DayBodies)
    \cup ({2} \X {DayBody(Text(2023, 3, 10), TRUE), DayBody(Feb30, TRUE)})

Windows == {-1, 0, 3, 7}

InitUpcoming == \E dt \in UpcomingTodays : InitAt(dt)

NextUpcoming ==
    \/ \E r \in DayRequests : CreateSpecialDay(r[1], r[2])
    \/ \E user \in Users, days \in Windows : GetUpcoming(user, days)

SpecUpcoming == InitUpcoming /\ [][NextUpcoming]_vars

UpcomingServed == last.op = "upcoming" /\ last.status = 200

Returned == { last.items[i] : i \in 1..Len(last.items) }

\* the stored day an item of the response was made from
DayOf(item) == CHOOSE d \in specialDays : d.id = item.id

\* C8: with a window of N >= 0 days the request succeeds and returns exactly
\* the caller's days whose occurrence lies in the calendar range
\* [today, today + N], today + N counted in days across month and year ends.
C8_UpcomingByCalendarWindow ==
    (last.op = "upcoming" /\ last.days >= 0)
    => /\ last.status = 200
       /\ { it.id : it \in Returned }
          = { d.id : d \in
                { d \in OwnDays(specialDays, last.user) :
                    /\ Ordinal(today) <= Ordinal(OccurrenceDate(d, today))
                    /\ Ordinal(OccurrenceDate(d, today))
                         <= Ordinal(today) + last.days } }

PassedOnce(d) ==
    ~d.repeat_yearly /\ DateLt(<<today[1], d.date[2], d.date[3]>>, today)

\* C9: no item of a served response comes from a day that does not repeat and
\* whose month and day of the current year lie before today.
C9_PassedOnceNeverListed ==
    UpcomingServed => \A it \in Returned : ~PassedOnce(DayOf(it))

\* the caller has such a day, and the response lists another of their days
C9_Witness ==
    /\ UpcomingServed /\ last.days >= 0
    /\ \E d \in OwnDays(specialDays, last.user) : PassedOnce(d)
    /\ last.items # <<>>

IsoNumber(s, from, to) ==
    LET RECURSIVE Num(_, _)
        Num(i, acc) == IF i > to THEN acc
                       ELSE Num(i + 1, acc * 10 + (CharRank(s[i]) - 1))
    IN Num(from, 0)

IsoDate(s) == <<IsoNumber(s, 1, 4), IsoNumber(s, 6, 7), IsoNumber(s, 9, 10)>>

\* C10: in a served response the occurrence date of each item is not later
\* than that of the item behind it.
C10_SortedByOccurrence ==
    UpcomingServed =>
        \A i \in 1..(Len(last.items) - 1) :
            DateLe(IsoDate(last.items[i].date), IsoDate(last.items[i + 1].date))

\* two days listed in the reverse of the order they were stored in
C10_Witness ==
    /\ UpcomingServed /\ Len(last.items) >= 2
    /\ last.items[1].id > last.items[2].id
    /\ last.items[1].date # last.items[2].date

RECURSIVE DaysFromTo(_, _, _)
\* the number of midnights from date a to date b, at most limit
DaysFromTo(a, b, limit) ==
    IF a = b \/ limit = 0 THEN 0 ELSE 1 + DaysFromTo(NextDay(a), b, limit - 1)

\* C11: every item of a served response reports as days_until the number of
\* days from today to its occurrence date, between 0 and the window, 0 exactly
\* when the occurrence is today, and as original_date the stored date.
C11_DaysUntilCounted ==
    UpcomingServed =>
        \A it \in Returned :
            /\ it.days_until \in 0..last.days
            /\ DateLe(today, IsoDate(it.date))
            /\ it.days_until = DaysFromTo(today, IsoDate(it.date), last.days + 1)
            /\ (it.days_until = 0) <=> (IsoDate(it.date) = today)
            /\ it.original_date = IsoFormat(DayOf(it).date)

\* stored 2023-03-10, today 2024-03-05, window 7: occurrence 2024-03-10 in 5 days
C11_Witness ==
    /\ UpcomingServed /\ today = <<2024, 3, 5>> /\ last.days = 7
    /\ \E it \in Returned :
          /\ it.date = IsoFormat(<<2024, 3, 10>>)
          /\ it.days_until = 5
          /\ it.original_date = IsoFormat(<<2023, 3, 10>>)
          /\ it.repeat_yearly

\* the year an occurrence of the day is computed in
OccurrenceYear(d) ==
    IF d.repeat_yearly /\ DateLt(<<today[1], d.date[2], d.date[3]>>, today)
    THEN today[1] + 1 ELSE today[1]

LeapDayOffYear(d) == d.date[2] = 2 /\ d.date[3] = 29 /\ ~IsLeap(OccurrenceYear(d))

\* C12: a request of a caller who has a day stored on February 29 whose
\* occurrence falls in a year that is not a leap year is served, given a
\* window end on the calendar.
C12_LeapDayServed ==
    (/\ last.op = "upcoming"
     /\ ValidDate(today[1], today[2], today[3] + last.days)
     /\ \E d \in OwnDays(specialDays, last.user) : LeapDayOffYear(d))
    => last.status = 200

(***************************************************************************)
(* Reads, and update and delete of special days                            *)
(***************************************************************************)
\* a decoded JSON value as the Python value json.loads returns
PyValue(item) ==
    IF item.t = "str" THEN item.s
    ELSE IF item.t = "null" THEN None
    ELSE item

\* get_events: thumbnail_paths / original_paths read from a stored field.
\* A NULL or empty text is skipped, a JSON list is taken, any other JSON value
\* is wrapped into a list, a text that is no JSON becomes the only element.
ReadPaths(text) ==
    IF text.kind \in {"null", "empty"} THEN <<>>
    ELSE IF text.kind = "json"
    THEN (IF text.value.t = "list"
          THEN [i \in 1..Len(text.value.items) |-> PyValue(text.value.items[i])]
          ELSE <<text.value>>)
    ELSE <<text>>

\* the last path taken as the primary one
LastOrNone(paths) == IF Len(paths) > 0 THEN paths[Len(paths)] ELSE None

\* paths[0] if paths else None
FirstOrNone(paths) == IF Len(paths) > 0 THEN paths[1] ELSE None

\* the value get_events stores under the key of an event
EventView(event) ==
    [id |-> event.id,
     entry_date |-> IsoFormat(event.entry_date),
     title |-> event.title,
     content |-> event.content,
     mood |-> event.mood,
     image |-> FirstOrNone(ReadPaths(event.image_thumbnail)),
     imageOriginal |-> FirstOrNone(ReadPaths(event.image_original)),
     images |-> ReadPaths(event.image_thumbnail),
     imagesOriginal |-> ReadPaths(event.image_original)]

\* db.query(Event).filter(Event.user_id == user).all(), with every row
\* (a table without the filter)
AllEvents(evs, user) == evs

\* db.query(Event).filter(Event.user_id == current_user.id).all()
OwnEvents(evs, user) == { e \in evs : e.user_id = user }

\* result[key] = {...} in a loop: the last row of a key stays
EventsResult(rows) ==
    [key \in { IsoFormat(rows[i].entry_date) : i \in 1..Len(rows) } |->
        EventView(rows[CHOOSE i \in 1..Len(rows) :
                         /\ IsoFormat(rows[i].entry_date) = key
                         /\ \A j \in 1..Len(rows) :
                              IsoFormat(rows[j].entry_date) = key => j <= i])]

\* GET /events
GetEvents(user) ==
    /\ \E rows \in QueryOrders(OwnEvents(events, user)) :
          last' = [op |-> "get_events", status |-> 200, detail |-> "ok",
                   user |-> user, items |-> EventsResult(rows)]
    /\ UNCHANGED <<users, today, events, nextEventId, files, nextUuid, sess, goals,
                   specialDays, probe, handles>>

\* x.isoformat() if x else None
IsoOrNone(dt) == IF dt = NoDate THEN None ELSE IsoFormat(dt)

GoalView(goal) ==
    [id |-> goal.id, text |-> goal.text, completed |-> goal.completed,
     completed_at |-> IsoOrNone(goal.completed_at),
     week_year |-> goal.week_year, week_index |-> goal.week_index,
     created_at |-> IsoOrNone(goal.created_at)]

\* GET /goals
GetGoals(user) ==
    /\ \E rows \in QueryOrders({ g \in goals : g.user_id = user }) :
          last' = [op |-> "get_goals", status |-> 200, detail |-> "ok",
                   user |-> user,
                   items |-> [i \in 1..Len(rows) |-> GoalView(rows[i])]]
    /\ UNCHANGED <<users, today, events, nextEventId, files, nextUuid, sess, goals,
                   specialDays, probe, handles>>

DayView(day) ==
    [id |-> day.id, title |-> day.title, date |-> IsoOrNone(day.date),
     type |-> day.type, repeat_yearly |-> day.repeat_yearly,
     notify_days_before |-> day.notify_days_before,
     created_at |-> IsoOrNone(day.created_at)]

\* GET /special-days
GetSpecialDays(user) ==
    /\ \E rows \in QueryOrders(OwnDays(specialDays, user)) :
          last' = [op |-> "get_special_days", status |-> 200, detail |-> "ok",
                   user |-> user,
                   items |-> [i \in 1..Len(rows) |-> DayView(rows[i])]]
    /\ UNCHANGED <<users, today, events, nextEventId, files, nextUuid, sess, goals,
                   specialDays, probe, handles>>

\* a lookup by id alone
AnyDay(days, special_day_id, user) == { d \in days : d.id = special_day_id }

\* db.query(SpecialDay).filter(id == special_day_id, user_id == user).first()
OwnDay(days, special_day_id, user) ==
    { d \in days : d.id = special_day_id /\ d.user_id = user }

\* the object after the assignments of update_special_day; ok is FALSE when
\* strptime raised, and the object is then as the raise left it
DayAssigned(day, upd) ==
    LET d1 == IF upd.title.set THEN [day EXCEPT !.title = upd.title.v] ELSE day
        bad == upd.date.set /\ ~DateParses(upd.date.v)
        d2 == IF upd.date.set /\ ~bad
              THEN [d1 EXCEPT !.date = ParsedDate(upd.date.v)] ELSE d1
        d3 == IF upd.type.set THEN [d2 EXCEPT !.type = upd.type.v] ELSE d2
        d4 == IF upd.repeat_yearly.set
              THEN [d3 EXCEPT !.repeat_yearly = upd.repeat_yearly.v] ELSE d3
        d5 == IF upd.notify_days_before.set
              THEN [d4 EXCEPT !.notify_days_before = upd.notify_days_before.v]
              ELSE d4
    IN [ok |-> ~bad, day |-> IF bad THEN d1 ELSE d5]

NotFound(op) == [op |-> op, status |-> 404, detail |-> "not_found"]

\* the 404 response, with the caller and the id of the request it answers
NotFoundFor(op, user, id) ==
    [op |-> op, status |-> 404, detail |-> "not_found", user |-> user, id |-> id]

\* PUT /special-days/{special_day_id}
UpdateSpecialDay(user, special_day_id, upd) ==
    /\ IF OwnDay(specialDays, special_day_id, user) = {}
       THEN /\ last' = NotFoundFor("update_special_day", user, special_day_id)
            /\ UNCHANGED specialDays
       ELSE \E day \in OwnDay(specialDays, special_day_id, user) :
            \E out \in {DayAssigned(day, upd)} :
               IF ~out.ok
               THEN /\ last' = BadDateResponse("update_special_day")
                    /\ UNCHANGED specialDays
               ELSE /\ specialDays' = (specialDays \ {day}) \cup {out.day}
                    /\ last' = [op |-> "update_special_day", status |-> 200,
                                detail |-> "ok", user |-> user,
                                id |-> special_day_id, upd |-> upd]
    /\ UNCHANGED <<users, today, events, nextEventId, files, nextUuid, sess, goals,
                   probe, handles>>

\* DELETE /special-days/{special_day_id}
DeleteSpecialDay(user, special_day_id) ==
    /\ IF OwnDay(specialDays, special_day_id, user) = {}
       THEN /\ last' = NotFoundFor("delete_special_day", user, special_day_id)
            /\ UNCHANGED specialDays
       ELSE /\ specialDays' = specialDays \ OwnDay(specialDays, special_day_id, user)
            /\ last' = [op |-> "delete_special_day", status |-> 200,
                        detail |-> "ok"]
    /\ UNCHANGED <<users, today, events, nextEventId, files, nextUuid, sess, goals,
                   probe, handles>>

\* the requests of two users on one another's records
OwnerSaves ==
    { [user |-> u, entry_date |-> D15, title |-> "Trip", content |-> None,
       mood |-> None, image |-> NoUpload, images |-> <<>>,
       keep_images |-> NullText] : u \in Users }

OwnerGoalBody ==
    [text |-> "run", completed |-> FALSE, completed_at |-> Absent,
     week_year |-> Absent, week_index |-> Absent]

OwnerGoalUpdates == { [NoUpdate EXCEPT !.text = Some("walk")] }

OwnerDayBody == DayBody(Text(2023, 1, 17), TRUE)

NoDayUpdate ==
    [title |-> Absent, date |-> Absent, type |-> Absent,
     repeat_yearly |-> Absent, notify_days_before |-> Absent]

OwnerDayUpdates ==
    { [NoDayUpdate EXCEPT !.title = Some("moved")],
      [NoDayUpdate EXCEPT !.title = Some("moved"), !.date = Some(Feb30)] }

\* the three tables together hold fewer than MaxRows rows
RowsLeft ==
    Cardinality(events) + Cardinality(goals) + Cardinality(specialDays) < MaxRows

\* the ids of the first rows of a table; the larger is absent at first
OwnerIds == {1, 2}

NextOwners ==
    \/ \E req \in OwnerSaves :
          (RowsLeft \/ OwnEvents(events, req.user) # {}) /\ SaveEvent(req)
    \/ \E user \in Users : GetEvents(user)
    \/ \E user \in Users : RowsLeft /\ CreateGoal(user, OwnerGoalBody)
    \/ \E user \in Users, goal_id \in OwnerIds, upd \in OwnerGoalUpdates :
          UpdateGoal(user, goal_id, upd)
    \/ \E user \in Users, goal_id \in OwnerIds : DeleteGoal(user, goal_id)
    \/ \E user \in Users : GetGoals(user)
    \/ \E user \in Users : RowsLeft /\ CreateSpecialDay(user, OwnerDayBody)
    \/ \E user \in Users, id \in OwnerIds, upd \in OwnerDayUpdates :
          UpdateSpecialDay(user, id, upd)
    \/ \E user \in Users, id \in OwnerIds : DeleteSpecialDay(user, id)
    \/ \E user \in Users : GetSpecialDays(user)
    \/ \E user \in Users : GetUpcoming(user, 7)

SpecOwners == Init /\ [][NextOwners]_vars

Reads == {"get_events", "get_goals", "get_special_days", "upcoming"}

\* the table a read is served from
TableOf(op) ==
    IF op = "get_events" THEN events
    ELSE IF op = "get_goals" THEN goals
    ELSE specialDays

\* the ids a read response carries
ReadIds(resp) == { resp.items[k].id : k \in DOMAIN resp.items }

\* every record a served read returned is a record of the caller
OnlyOwnReturned ==
    (last.op \in Reads /\ last.status = 200)
    => \A id \in ReadIds(last) :
          \E r \in TableOf(last.op) : r.id = id /\ r.user_id = last.user

\* the records of a table that do not belong to user stay as they are
OthersKept(rows, rowsAfter, user) ==
    \A r \in rows : r.user_id # user => r \in rowsAfter

\* a record keeps its owner
OwnerKept(rows, rowsAfter) ==
    \A r \in rows : \A q \in rowsAfter : r.id = q.id => r.user_id = q.user_id

C13_Step ==
    /\ OnlyOwnReturned'
    /\ \A user \in Users :
          /\ \A goal_id \in OwnerIds :
                (\/ DeleteGoal(user, goal_id)
                 \/ \E upd \in OwnerGoalUpdates : UpdateGoal(user, goal_id, upd))
                => OthersKept(goals, goals', user)
          /\ \A id \in OwnerIds :
                (\/ DeleteSpecialDay(user, id)
                 \/ \E upd \in OwnerDayUpdates : UpdateSpecialDay(user, id, upd))
                => OthersKept(specialDays, specialDays', user)
    /\ OwnerKept(events, events')
    /\ OwnerKept(goals, goals')
    /\ OwnerKept(specialDays, specialDays')

\* C13: every read returns to its caller only records the caller owns, an
\* update or delete of a goal or special day leaves the records of all other
\* users as they were, and no step changes the user_id of a record.
C13_NoCrossUser == [][C13_Step]_vars

\* a user who owns nothing was just refused on the id of another user's goal,
\* which is still there
C13_Witness ==
    /\ last = [op |-> "update_goal", status |-> 404, detail |-> "not_found"]
    /\ \E g \in goals : g.user_id = 1 /\ g.text = "run"
    /\ \E d \in specialDays : d.user_id = 2
    /\ ~\E g \in goals : g.user_id = 2

\* no record of the table has this id and this owner
NotOwned(rows, user, id) == \A r \in rows : r.id = id => r.user_id # user

C14_Step ==
    \A user \in Users :
       /\ \A goal_id \in OwnerIds :
             NotOwned(goals, user, goal_id) =>
                /\ (\E upd \in OwnerGoalUpdates : UpdateGoal(user, goal_id, upd))
                   => last' = NotFound("update_goal")
                /\ DeleteGoal(user, goal_id) => last' = NotFound("delete_goal")
       /\ \A id \in OwnerIds :
             NotOwned(specialDays, user, id) =>
                /\ (\E upd \in OwnerDayUpdates : UpdateSpecialDay(user, id, upd))
                   => /\ last'.status = 404 /\ last'.detail = "not_found"
                      /\ specialDays' = specialDays
                /\ DeleteSpecialDay(user, id)
                   => /\ last'.status = 404 /\ last'.detail = "not_found"
                      /\ specialDays' = specialDays

\* C14: an update or delete of a goal or special day with an id the caller
\* does not own gets the one not-found response, whether the id is absent or
\* belongs to another user.
C14_NoExistenceLeak == [][C14_Step]_vars

\* a delete was refused on the id of a day that another user owns
C14_Witness ==
    /\ last.op = "delete_special_day" /\ last.status = 404
    /\ \E d \in specialDays : d.id = last.id /\ d.user_id # last.user

\* the files on disk that the uploads of the last save_event were written to
LeftBehind == { p \in files : \E i \in 1..Len(last.uploaded) : last.uploaded[i] = p }

\* C15: when a save_event is rejected by the size guard, no file written for
\* an upload of that request is in storage.
C15_SizeGuardBeforeWrites ==
    (last.op = "save_event" /\ last.detail = "too_large") => LeftBehind = {}

\* C16: when a save_event fails with a processing error, no file written for
\* an upload of that request is in storage.
C16_FailedRequestLeavesNoFile ==
    (last.op = "save_event" /\ last.detail = "processing_failed")
    => LeftBehind = {}

(***************************************************************************)
(* Accounts: register, change_password, update_user_me, upload_avatar      *)
(***************************************************************************)
\* current_user: the row of the authenticated caller
CallerRow(us, user) == CHOOSE u \in us : u.id = user

\* a users table without the unique index
UsernameNotUnique(us, username) == FALSE

\* username = Column(String, unique=True): an INSERT of a second row with
\* the name raises IntegrityError
UsernameTaken(us, username) == \E u \in us : u.username = username

RegisterResponse(status, detail, user, username) ==
    [op |-> "register", status |-> status, detail |-> detail, user |-> user,
     username |-> username]

\* get_current_admin_user and the lookup of the name: the response that ends
\* the request here, or "go on"
RegisterChecked(us, user, username) ==
    IF ~CallerRow(us, user).is_admin
    THEN RegisterResponse(403, "forbidden", user, username)
    ELSE IF \E u \in us : u.username = username
    THEN RegisterResponse(400, "username_exists", user, username)
    ELSE RegisterResponse(0, "go on", user, username)

\* db.add(new_user); db.commit(): the table afterwards and the response
RegisterInserted(us, user, username, password, salt) ==
    IF UsernameTaken(us, username)
    THEN [users |-> us,
          resp |-> RegisterResponse(500, "integrity_error", user, username)]
    ELSE [users |-> us \cup
                    { NewUser(NewId(us), username,
                              get_password_hash(password, salt), FALSE, NoDate) },
          resp |-> RegisterResponse(200, "ok", user, username)]

\* POST /register served alone
Register(user, username, password) ==
    /\ \E checked \in {RegisterChecked(users, user, username)} :
          IF checked.status # 0
          THEN /\ last' = checked
               /\ UNCHANGED users
          ELSE \E salt \in Salts :
               \E out \in {RegisterInserted(users, user, username, password, salt)} :
                  /\ users' = out.users
                  /\ last' = out.resp
    /\ UNCHANGED <<today, events, nextEventId, files, nextUuid, sess, goals,
                   specialDays, probe, handles>>

\* POST /register in a worker process r that other workers interleave with:
\* the admin check and the lookup of the name
RegisterBegin(r, user, username, password) ==
    /\ sess[r] = Idle
    /\ \E checked \in {RegisterChecked(users, user, username)} :
          IF checked.status # 0
          THEN /\ last' = checked
               /\ UNCHANGED sess
          ELSE /\ sess' = [sess EXCEPT ![r] =
                             [pc |-> "register", user |-> user,
                              username |-> username, password |-> password]]
               /\ UNCHANGED last
    /\ UNCHANGED <<users, today, events, nextEventId, files, nextUuid, goals,
                   specialDays, probe, handles>>

\* ... and the INSERT and commit
RegisterCommit(r) ==
    /\ sess[r] # Idle
    /\ \E salt \in Salts :
       \E out \in {RegisterInserted(users, sess[r].user, sess[r].username,
                                    sess[r].password, salt)} :
          /\ users' = out.users
          /\ last' = out.resp
    /\ sess' = [sess EXCEPT ![r] = Idle]
    /\ UNCHANGED <<today, events, nextEventId, files, nextUuid, goals,
                   specialDays, probe, handles>>

\* a password change that skips the check of the old password
PasswordCheckedNoOld(row, req) ==
    IF req.new_password # req.confirm_password THEN "mismatch"
    ELSE IF Len(req.new_password) < 6 THEN "too_short"
    ELSE "ok"

\* the three checks of change_password, in order
PasswordChecked(row, req) ==
    IF ~verify_password(req.old_password, row.hashed_password) THEN "old_password"
    ELSE IF req.new_password # req.confirm_password THEN "mismatch"
    ELSE IF Len(req.new_password) < 6 THEN "too_short"
    ELSE "ok"

\* PUT /users/me/password
ChangePassword(user, req) ==
    /\ \E row \in {CallerRow(users, user)} :
       \E checked \in {PasswordChecked(row, req)} :
          IF checked # "ok"
          THEN /\ last' = [op |-> "change_password", status |-> 400,
                           detail |-> checked, user |-> user, req |-> req]
               /\ UNCHANGED users
          ELSE \E salt \in Salts \ {row.hashed_password.salt} :
                  /\ users' = (users \ {row}) \cup
                        { [row EXCEPT !.hashed_password =
                                         get_password_hash(req.new_password, salt)] }
                  /\ last' = [op |-> "change_password", status |-> 200,
                              detail |-> "ok", user |-> user, req |-> req]
    /\ UNCHANGED <<today, events, nextEventId, files, nextUuid, sess, goals,
                   specialDays, probe, handles>>

\* PUT /users/me
UpdateUserMe(user, body) ==
    /\ IF ~DateParses(body.dob)
       THEN /\ last' = BadDateResponse("update_user_me")
            /\ UNCHANGED users
       ELSE \E row \in {CallerRow(users, user)} :
               /\ users' = (users \ {row}) \cup
                     { [row EXCEPT
                          !.dob = ParsedDate(body.dob),
                          !.life_expectancy = body.life_expectancy,
                          !.nickname = IF body.nickname # None
                                       THEN body.nickname ELSE @,
                          !.avatar_url = IF body.avatar_url # None
                                         THEN body.avatar_url ELSE @] }
               /\ last' = [op |-> "update_user_me", status |-> 200,
                           detail |-> "ok"]
    /\ UNCHANGED <<today, events, nextEventId, files, nextUuid, sess, goals,
                   specialDays, probe, handles>>

allowed_types == {"image/jpeg", "image/png", "image/gif", "image/webp"}

\* /static/avatars/avatar_{id}_{uuid4().hex[:8]}.jpg
AvatarUrl(user, n) ==
    StaticPrefix \o <<"/", "a", "v", "a", "t", "a", "r", "s", "/">>
    \o <<DigitChar(user), "_">> \o UuidName(n) \o <<".", "j", "p", "g">>

\* POST /users/me/avatar
UploadAvatar(user, avatar) ==
    /\ nextUuid < MaxUploads
    /\ IF avatar.content_type \notin allowed_types
       THEN /\ last' = [op |-> "upload_avatar", status |-> 400,
                        detail |-> "unsupported_format"]
            /\ UNCHANGED <<users, files, nextUuid>>
       ELSE IF avatar.size > 5 * 1024 * 1024
       THEN /\ last' = [op |-> "upload_avatar", status |-> 400,
                        detail |-> "too_large"]
            /\ UNCHANGED <<users, files, nextUuid>>
       ELSE IF avatar.fault # "none"
       THEN /\ last' = [op |-> "upload_avatar", status |-> 500,
                        detail |-> "processing_failed"]
            /\ UNCHANGED <<users, files, nextUuid>>
       ELSE \E row \in {CallerRow(users, user)} :
               /\ files' = files \cup {AvatarUrl(user, nextUuid)}
               /\ nextUuid' = nextUuid + 1
               /\ users' = (users \ {row}) \cup
                     { [row EXCEPT !.avatar_url = AvatarUrl(user, nextUuid)] }
               /\ last' = [op |-> "upload_avatar", status |-> 200,
                           detail |-> "ok"]
    /\ UNCHANGED <<today, events, nextEventId, sess, goals, specialDays, probe, handles>>

Secret6 == <<"s", "e", "c", "r", "e", "t">>
Short5 == <<"s", "h", "o", "r", "t">>

\* the callers of a request: the ids of the stored users
Callers == { u.id : u \in users }

NewNames == {"bob", "eve", DEFAULT_ADMIN_USERNAME}

NextRegister ==
    \/ \E r \in Workers, user \in Callers, username \in NewNames :
          RegisterBegin(r, user, username, Secret6)
    \/ \E r \in Workers : RegisterCommit(r)

SpecRegister == Init /\ [][NextRegister]_vars

Names(us) == { u.username : u \in us }

IsAdmin(us, user) == \E u \in us : u.id = user /\ u.is_admin

C18_Step ==
    /\ \A u, v \in users' : u.username = v.username => u = v
    /\ \A r \in Workers, user \in Callers, username \in NewNames :
          RegisterBegin(r, user, username, Secret6) =>
             /\ ~IsAdmin(users, user) =>
                   /\ last'.status = 403 /\ users' = users /\ sess' = sess
             /\ (IsAdmin(users, user) /\ username \in Names(users)) =>
                   /\ last'.status = 400 /\ users' = users /\ sess' = sess
    /\ \A r \in Workers :
          (RegisterCommit(r) /\ sess[r].username \in Names(users)) =>
             /\ last'.status # 200 /\ users' = users

\* C18: a register request of a caller who is no admin is refused with 403
\* and one of an admin for a stored username is refused, both without a
\* change of the users table, and no two users ever share a username, also
\* when the checks and commits of register requests interleave.
C18_RegistrationGated == [][C18_Step]_vars

\* of two interleaved requests for one new name the second commit was refused
C18_Witness ==
    /\ last.op = "register" /\ last.status = 500
    /\ last.username \in Names(users)
    /\ \E u \in users : ~u.is_admin

PasswordRequests ==
    [old_password : {DEFAULT_ADMIN_PASSWORD, Secret6},
     new_password : {Secret6, Short5, DEFAULT_ADMIN_PASSWORD},
     confirm_password : {Secret6, Short5}]

NextAccounts ==
    \/ \E user \in Callers, username \in {"bob"} :
          Register(user, username, DEFAULT_ADMIN_PASSWORD)
    \/ \E user \in Callers, req \in PasswordRequests : ChangePassword(user, req)

SpecAccounts == Init /\ [][NextAccounts]_vars

HashOf(us, user) == (CHOOSE u \in us : u.id = user).hashed_password

\* what the claim asks of an accepted request
PasswordAccepted(hash, req) ==
    /\ hash.digest = req.old_password
    /\ req.new_password = req.confirm_password
    /\ Len(req.new_password) >= 6

C19_Step ==
    \A user \in Callers, req \in PasswordRequests :
       ChangePassword(user, req) =>
          /\ \A u \in users : u.id # user => u \in users'
          /\ IF PasswordAccepted(HashOf(users, user), req)
             THEN /\ last'.status = 200
                  /\ HashOf(users', user) # HashOf(users, user)
                  /\ HashOf(users', user).digest = req.new_password
             ELSE /\ last'.status = 400
                  /\ HashOf(users', user) = HashOf(users, user)

\* C19: change_password replaces the caller's hash by a hash of new_password
\* exactly when the old password verifies, new and confirm are equal and the
\* new password has 6 characters or more; otherwise it answers 400 and keeps
\* the hash; the hashes of the other users stay.
C19_PasswordChange == [][C19_Step]_vars

\* a user changed their password while another user's hash stayed as registered
C19_Witness ==
    /\ last.op = "change_password" /\ last.status = 200
    /\ HashOf(users, last.user).digest = last.req.new_password
    /\ \E u \in users : u.id # last.user

(***************************************************************************)
(* Protected calls: oauth2_scheme and get_current_user                     *)
(***************************************************************************)
SECRET_KEY == "CHANGE_THIS_TO_A_SUPER_SECRET_KEY"

\* the Authorization header of a request
NoToken == [kind |-> "missing"]
Garbage == [kind |-> "malformed"]
Jwt(sub, key, exp) == [kind |-> "jwt", sub |-> sub, key |-> key, exp |-> exp]

\* a decode that does not look at exp
JwtDecodesNoExpiry(token, tdy) == token.kind = "jwt" /\ token.key = SECRET_KEY

\* jwt.decode(token, SECRET_KEY, algorithms=[ALGORITHM]) returns a payload;
\* otherwise it raises JWTError: no JWT, another signing key, exp in the past
JwtDecodes(token, tdy) ==
    /\ token.kind = "jwt"
    /\ token.key = SECRET_KEY
    /\ DateLe(tdy, token.exp)

\* get_current_user: the rows it returns as current_user; none when it raises
CurrentUsers(us, token, tdy) ==
    IF ~JwtDecodes(token, tdy) THEN {}
    ELSE IF token.sub = None THEN {}
    ELSE { u \in us : u.username = token.sub }

\* 401 of OAuth2PasswordBearer for a request without a bearer token, and
\* credentials_exception of get_current_user
Unauthorized(token) ==
    [op |-> "protected", status |-> 401,
     detail |-> IF token.kind = "missing" THEN "not_authenticated"
                ELSE "invalid_credentials"]

\* Depends(get_current_user) raised: the request ends before its handler
Refused(token) ==
    /\ CurrentUsers(users, token, today) = {}
    /\ last' = Unauthorized(token)
    /\ UNCHANGED <<users, today, events, nextEventId, files, nextUuid, sess,
                   goals, specialDays, probe, handles>>

\* current_user.id as the handlers receive it
CallerIds(token) == { u.id : u \in CurrentUsers(users, token, today) }

SaveOf(user) ==
    [user |-> user, entry_date |-> D15, title |-> "Trip", content |-> None,
     mood |-> None, image |-> NoUpload, images |-> <<>>,
     keep_images |-> NullText]

PasswordOf == [old_password |-> DEFAULT_ADMIN_PASSWORD, new_password |-> Secret6,
               confirm_password |-> Secret6]

ProfileOf == [dob |-> Text(1991, 2, 3), life_expectancy |-> 90,
              nickname |-> "Al", avatar_url |-> None]

AvatarOf == [content_type |-> "image/png", size |-> 2048, fault |-> "none"]

\* the records and files that the store holds beyond its initial content
\* number fewer than MaxRows
AuthRowsLeft ==
    Cardinality(events) + Cardinality(goals) + Cardinality(specialDays)
    + Cardinality(files) + Cardinality(users \ InitialUsers) < MaxRows

\* the routes that declare Depends(get_current_user), register through
\* get_current_admin_user, called with the credential token
AuthCall(token) ==
    \/ Refused(token)
    \/ \E u \in CallerIds(token) :
          \/ GetEvents(u)
          \/ (AuthRowsLeft \/ OwnEvents(events, u) # {}) /\ SaveEvent(SaveOf(u))
          \/ AuthRowsLeft /\ UpdateUserMe(u, ProfileOf)
          \/ AuthRowsLeft /\ UploadAvatar(u, AvatarOf)
          \/ GetSpecialDays(u)
          \/ AuthRowsLeft /\ CreateSpecialDay(u, OwnerDayBody)
          \/ \E upd \in OwnerDayUpdates : UpdateSpecialDay(u, 1, upd)
          \/ DeleteSpecialDay(u, 1)
          \/ GetUpcoming(u, 7)
          \/ GetGoals(u)
          \/ AuthRowsLeft /\ CreateGoal(u, OwnerGoalBody)
          \/ \E upd \in OwnerGoalUpdates : UpdateGoal(u, 1, upd)
          \/ DeleteGoal(u, 1)
          \/ AuthRowsLeft /\ ChangePassword(u, PasswordOf)
          \/ AuthRowsLeft /\ Register(u, "bob", Secret6)

FarDay == <<2024, 2, 4>>
PastDay == <<2024, 1, 14>>

Tokens ==
    { NoToken, Garbage,
      Jwt(DEFAULT_ADMIN_USERNAME, SECRET_KEY, FarDay),
      Jwt("bob", SECRET_KEY, FarDay),
      Jwt(DEFAULT_ADMIN_USERNAME, "another key", FarDay),
      Jwt(DEFAULT_ADMIN_USERNAME, SECRET_KEY, PastDay),
      Jwt(None, SECRET_KEY, FarDay) }

NextAuth == \E token \in Tokens : AuthCall(token)

SpecAuth == Init /\ [][NextAuth]_vars

\* missing, malformed, wrongly signed, expired, without a subject, or naming
\* no stored user
BadCredential(token) ==
    \/ token.kind # "jwt"
    \/ /\ token.kind = "jwt"
       /\ \/ token.key # SECRET_KEY
          \/ DateLt(token.exp, today)
          \/ token.sub = None
          \/ token.sub \notin Names(users)

C17_Step ==
    \A token \in Tokens :
       (BadCredential(token) /\ AuthCall(token)) =>
          /\ last'.status = 401
          /\ UNCHANGED <<users, events, goals, specialDays, files>>

\* C17: a protected call with a credential that is missing, malformed, wrongly
\* signed, expired, or names no stored user is answered 401 and leaves users,
\* events, goals, special days and files as they were.
C17_BadCredentialRefused == [][C17_Step]_vars

\* a call was refused while users, entries and goals were stored
C17_Witness ==
    /\ last.op = "protected" /\ last.detail = "invalid_credentials"
    /\ events # {} /\ goals # {}
    /\ "bob" \notin Names(users)

(***************************************************************************)
(* The thumbnail URL of a retained URL, as a function of the URL           *)
(***************************************************************************)
UrlAlphabet == {"a", ".", "/"}
UrlTails == UNION { [1..k -> UrlAlphabet] : k \in 0..MaxTail }
UrlHeads == { <<>>, StaticPrefix, <<"/", "a">> }
UrlDirs == { OriginalsSeg, <<"/", "o", "/">> }
ProbeUrls == { h \o d \o t : h \in UrlHeads, d \in UrlDirs, t \in UrlTails }

InitThumb == InitAt(FirstDay)

\* the keep loop's conversion applied to one URL
DeriveThumb(img_url) ==
    /\ probe' = [fn |-> "thumb_url", url |-> img_url, thumb |-> ThumbUrl(img_url)]
    /\ UNCHANGED <<users, today, events, nextEventId, files, nextUuid, sess, last,
                   goals, specialDays, handles>>

NextThumb == \E img_url \in ProbeUrls : DeriveThumb(img_url)

SpecThumb == InitThumb /\ [][NextThumb]_vars

\* the URL with the originals segment replaced and only its last path segment
\* renamed to <name without extension>_thumb.jpg
FileNameRewritten(img_url) ==
    LET moved == Replace(img_url, OriginalsSeg, ThumbnailsSeg)
        cut == LastIndexOf(moved, Slash)
        filename == SubSeq(moved, cut + 1, Len(moved))
        stem == IF LastIndexOf(filename, Dot) = 0 THEN filename
                ELSE SubSeq(filename, 1, LastIndexOf(filename, Dot) - 1)
    IN SubSeq(moved, 1, cut) \o stem \o ThumbSuffix

\* C5: the thumbnail URL derived for a retained URL with the /originals/
\* segment is that URL with the segment replaced by /thumbnails/ and only the
\* final path segment rewritten to <name without extension>_thumb.jpg, also
\* when the file name occurs earlier in the URL or the URL ends with "/"; a
\* URL without the segment is its own thumbnail.
C5_OnlyFileNameRewritten ==
    probe.fn = "thumb_url" =>
        probe.thumb = IF Contains(probe.url, OriginalsSeg)
                      THEN FileNameRewritten(probe.url)
                      ELSE probe.url

(***************************************************************************)
(* Properties of save_event                                                *)
(***************************************************************************)
SamePair(e, f) == e.user_id = f.user_id /\ e.entry_date = f.entry_date

\* the list a stored image field decodes to
StoredPaths(text) ==
    IF text = NullText THEN <<>>
    ELSE [i \in 1..Len(text.value.items) |-> text.value.items[i].s]

\* the rows of the pair the last request named
LastRows(evs) ==
    { e \in evs : /\ e.user_id = last.req.user
                  /\ e.entry_date = ParsedDate(last.req.entry_date) }

SavedOk(resp) == resp.op = "save_event" /\ resp.status = 200

\* C1: whatever the interleaving of the lookups and commits of save_event
\* requests, the table never holds two rows with the same (user_id, entry_date).
C1_OneEventPerUserDate ==
    \A e \in events : \A f \in events : SamePair(e, f) => e = f

\* a second INSERT for a pair that another worker created after this worker's
\* lookup was refused
C1_Witness ==
    /\ last.op = "save_event" /\ last.status = 500
    /\ last.detail = "integrity_error"
    /\ ~last.existed
    /\ \E e \in events : e.user_id = last.req.user
                          /\ e.entry_date = ParsedDate(last.req.entry_date)

StoredFields(e) ==
    <<e.id, e.user_id, e.entry_date, e.title, e.content, e.mood,
      e.image_original, e.image_thumbnail>>

\* C2: a save that repeats the request served just before it (same user, date,
\* title, content, mood and keep_images, no upload) leaves exactly one row for
\* the pair, with the same stored fields and an updated_at that is not earlier.
C2_Step ==
    (SavedOk(last') /\ last'.repeat /\ AllImages(last'.req) = <<>>)
    => /\ Cardinality(LastRows(events)) = 1
       /\ \E e \in LastRows(events) : \E f \in LastRows(events)' :
             /\ LastRows(events)' = {f}
             /\ StoredFields(f) = StoredFields(e)
             /\ DateLe(e.updated_at, f.updated_at)

C2_IdempotentSave == [][C2_Step]_vars

\* the same request was saved twice in a row, the second time a day later
C2_Witness ==
    /\ SavedOk(last) /\ last.repeat /\ AllImages(last.req) = <<>>
    /\ last.req.keep_images # NullText
    /\ today # FirstDay
    /\ \E e \in events : e.updated_at = today

\* a pair that process_image returns, or a retained URL with the thumbnail
\* URL derived from it
Belongs(original, thumbnail) ==
    \/ \E n \in 0..(nextUuid - 1) : \E ext \in allowed_extensions :
          original = OriginalUrl(n, ext) /\ thumbnail = ThumbnailUrl(n)
    \/ thumbnail = ThumbUrl(original)

\* C3: the stored original and thumbnail lists of every event have the same
\* length, and the thumbnail at each index belongs to the original at that index.
C3_ListsCorrespond ==
    \A e \in events :
        LET o == StoredPaths(e.image_original)
            t == StoredPaths(e.image_thumbnail)
        IN /\ Len(o) = Len(t)
           /\ \A i \in 1..Len(o) : Belongs(o[i], t[i])

\* two uploads and a keep list with a non-string item between a non-standard
\* and a standard URL were saved
C3_Witness ==
    /\ SavedOk(last)
    /\ Len(last.uploaded) = 2
    /\ last.req.keep_images = KeepJson(<<JStr(UrlM), JNull, JStr(UrlK)>>)
    /\ \E e \in events : Len(StoredPaths(e.image_thumbnail)) = 4

IsJStr(item) == item.t = "str"

\* the URLs of keep_images that are retained, in the order given
RetainedUrls(keep_images) ==
    IF keep_images.kind = "json" /\ keep_images.value.t = "list"
    THEN LET strs == SelectSeq(keep_images.value.items, IsJStr)
         IN [i \in 1..Len(strs) |-> strs[i].s]
    ELSE <<>>

\* uploaded holds one fresh original per upload of the request, in upload order
InUploadOrder(req, uploaded) ==
    /\ Len(uploaded) = Len(AllImages(req))
    /\ \E n \in 0..MaxUploads :
          \A i \in 1..Len(uploaded) :
              uploaded[i] = OriginalUrl(n + i - 1, FileExt(AllImages(req)[i].filename))

\* C4: after a successful save the stored original list is the new uploads in
\* upload order followed by the retained URLs in the order given, whatever was
\* stored before; when that list is empty both image fields are null.
C4_ListsReplaced ==
    SavedOk(last) =>
        /\ InUploadOrder(last.req, last.uploaded)
        /\ \A e \in LastRows(events) :
              LET expected == last.uploaded \o RetainedUrls(last.req.keep_images)
              IN IF expected = <<>>
                 THEN e.image_original = NullText /\ e.image_thumbnail = NullText
                 ELSE /\ e.image_original # NullText
                      /\ StoredPaths(e.image_original) = expected
                      /\ Len(StoredPaths(e.image_thumbnail)) = Len(expected)

\* an entry that existed was saved again with no upload and nothing retained
C4_Witness ==
    /\ SavedOk(last) /\ last.existed
    /\ last.uploaded = <<>>
    /\ RetainedUrls(last.req.keep_images) = <<>>
    /\ last.req.keep_images # NullText
    /\ nextUuid > 0
    /\ \E e \in LastRows(events) : e.image_original = NullText

(***************************************************************************)
(* Saving and reading entries                                              *)
(***************************************************************************)
\* the saves of SpecImages, and an entry of another user on another date
ReadSaves ==
    ImageRequests
    \cup
    { [user |-> 2, entry_date |-> D16, title |-> "Walk", content |-> "Sea",
       mood |-> "happy", image |-> NoUpload, images |-> <<>>,
       keep_images |-> KeepJson(<<JStr(UrlM)>>)] }

NextRead ==
    \/ \E req \in ReadSaves : SaveEvent(req)
    \/ \E user \in Users : GetEvents(user)

SpecRead == Init /\ [][NextRead]_vars

Key20240115 == <<"2", "0", "2", "4", "-", "0", "1", "-", "1", "5">>
Key20240116 == <<"2", "0", "2", "4", "-", "0", "1", "-", "1", "6">>

\* the ISO string of the date of a request
KeyOf(req) == IF req.entry_date = D15 THEN Key20240115 ELSE Key20240116

\* the entry read back is the one saved: the text fields of the request, the
\* lists of the stored row, and their first elements or null
ReadBack(item, req, row) ==
    /\ item.title = req.title
    /\ item.content = req.content
    /\ item.mood = (IF req.mood = None THEN "neutral" ELSE req.mood)
    /\ item.imagesOriginal = StoredPaths(row.image_original)
    /\ item.images = StoredPaths(row.image_thumbnail)
    /\ IF row.image_original = NullText
       THEN item.imageOriginal = None /\ item.image = None
       ELSE /\ item.imageOriginal = StoredPaths(row.image_original)[1]
            /\ item.image = StoredPaths(row.image_thumbnail)[1]

C20_Step ==
    (/\ SavedOk(last)
     /\ last'.op = "get_events" /\ last'.user = last.req.user)
    => /\ KeyOf(last.req) \in DOMAIN last'.items
       /\ \E row \in LastRows(events) :
             ReadBack(last'.items[KeyOf(last.req)], last.req, row)

\* C20: a get_events that follows a successful save_event of the same user
\* returns under the ISO string of the saved date the saved title, content
\* and mood, the stored lists of originals and thumbnails in their order, and
\* as primary image and original their first elements, or null without images.
C20_SaveReadRoundTrip == [][C20_Step]_vars

\* an entry with an upload and a retained URL was read back under 2024-01-15
C20_Witness ==
    /\ last.op = "get_events" /\ last.user = 1
    /\ Key20240115 \in DOMAIN last.items
    /\ Len(last.items[Key20240115].images) = 2
    /\ Contains(last.items[Key20240115].imagesOriginal[1],
                StaticPrefix \o OriginalsSeg)
    /\ last.items[Key20240115].imageOriginal
         # last.items[Key20240115].imagesOriginal[2]

(***************************************************************************)
(* GPS coordinates of an upload (utils.py, extract_gps_coordinates)        *)
(***************************************************************************)
\* Python values of the EXIF block.  A float is an exact fraction n/d in
\* lowest terms, or nan.
NoValue == [t |-> "none"]
Raised == [t |-> "raised"]
NaNFloat == [t |-> "nan"]
RECURSIVE Gcd(_, _)
Gcd(a, b) == IF b = 0 THEN a ELSE Gcd(b, a % b)
Abs(a) == IF a < 0 THEN 0 - a ELSE a
Float(n, d) ==
    [t |-> "float", n |-> n \div Gcd(Abs(n), d), d |-> d \div Gcd(Abs(n), d)]
IfdRational(n, d) == [t |-> "rational", n |-> n, d |-> d]
PairTuple(n, d) == [t |-> "pair", n |-> n, d |-> d]
Unparsed == [t |-> "text"]
Tuple(items) == [t |-> "tuple", items |-> items]
StrValue(s) == [t |-> "str", s |-> s]
BytesValue(s) == [t |-> "bytes", s |-> s]
Coords(lat, lon) == [t |-> "coords", lat |-> lat, lon |-> lon]

FloatNeg(a) == IF a.t = "nan" THEN NaNFloat ELSE Float(0 - a.n, a.d)

FloatDiv(a, k) == IF a.t = "nan" THEN NaNFloat ELSE Float(a.n, a.d * k)

FloatAdd(a, b) ==
    IF a.t = "nan" \/ b.t = "nan" THEN NaNFloat
    ELSE Float(a.n * b.d + b.n * a.d, a.d * b.d)

\* float(value): an IFDRational with denominator 0 is nan; a tuple or a text
\* that is no number raises
PyFloat(value) ==
    IF value.t = "rational"
    THEN IF value.d = 0 THEN NaNFloat ELSE Float(value.n, value.d)
    ELSE Raised

to_float(value) ==
    IF value = NoValue THEN NoValue
    ELSE IF PyFloat(value) # Raised THEN PyFloat(value)
    ELSE IF value.t = "pair"
         THEN IF value.d = 0 THEN NoValue ELSE Float(value.n, value.d)
         ELSE NoValue

dms_to_degrees(dms_value) ==
    IF dms_value.t # "tuple" THEN NoValue
    ELSE IF Len(dms_value.items) # 3 THEN NoValue
    ELSE LET degrees == to_float(dms_value.items[1])
             minutes == to_float(dms_value.items[2])
             seconds == to_float(dms_value.items[3])
         IN IF degrees = NoValue \/ minutes = NoValue \/ seconds = NoValue
            THEN NoValue
            ELSE FloatAdd(FloatAdd(degrees, FloatDiv(minutes, 60)),
                          FloatDiv(seconds, 3600))

\* bytes.decode of a reference tag; other values stay as they are
Decoded(ref) == IF ref.t = "bytes" THEN StrValue(ref.s) ELSE ref

\* str(ref).upper()
UpperStr(ref) ==
    IF ref.t = "none" THEN "NONE"
    ELSE IF ref.t # "str" THEN "OTHER"
    ELSE CASE ref.s = "s" -> "S"
           [] ref.s = "w" -> "W"
           [] ref.s = "n" -> "N"
           [] ref.s = "e" -> "E"
           [] OTHER -> ref.s

GpsReturn(value, pos) == [raised |-> FALSE, value |-> value, pos |-> pos]

GpsRaise(pos) == [raised |-> TRUE, value |-> NoValue, pos |-> pos]

\* the try block: seek(0), Image.open, getexif, the GPS directory, the four
\* tags, the conversion and the signs.  Reading the image leaves the stream
\* at offset file.size.
GpsTry(file) ==
    IF file.image = "unreadable" THEN GpsRaise(file.size)
    ELSE IF file.image = "broken_exif" THEN GpsRaise(file.size)
    ELSE IF file.exif.t = "empty" THEN GpsReturn(NoValue, file.size)
    ELSE IF file.exif.gps.t = "empty" THEN GpsReturn(NoValue, file.size)
    ELSE LET gps_info == file.exif.gps
             lat_ref == Decoded(gps_info.lat_ref)
             lon_ref == Decoded(gps_info.lon_ref)
             lat == dms_to_degrees(gps_info.lat_dms)
             lon == dms_to_degrees(gps_info.lon_dms)
         IN IF lat = NoValue \/ lon = NoValue
            THEN GpsReturn(NoValue, file.size)
            ELSE GpsReturn(
                   Coords(IF UpperStr(lat_ref) = "S" THEN FloatNeg(lat) ELSE lat,
                          IF UpperStr(lon_ref) = "W" THEN FloatNeg(lon) ELSE lon),
                   file.size)

\* the function without its except clause: an error of the try block leaves
\* the function
extract_gps_unhandled(file) == [GpsTry(file) EXCEPT !.pos = 0]

\* except Exception: return None; finally: file.file.seek(0)
extract_gps_coordinates(file) ==
    LET body == GpsTry(file)
        caught == IF body.raised THEN GpsReturn(NoValue, body.pos) ELSE body
    IN [caught EXCEPT !.pos = 0]

\* the call on the upload of the harness
ExtractGps ==
    /\ probe.fn = "upload"
    /\ \E out \in {extract_gps_coordinates(probe.file)} :
          probe' = [fn |-> "extract_gps_coordinates", file |-> probe.file,
                    out |-> out]
    /\ UNCHANGED <<users, today, events, nextEventId, files, nextUuid, sess, last,
                   goals, specialDays, handles>>

\* the uploads probed
ExifComponents ==
    {NoValue, Unparsed}
    \cup { IfdRational(n, d) : n \in 1..MaxNum, d \in 0..MaxDen }
    \cup { PairTuple(n, d) : n \in 1..MaxNum, d \in 0..MaxDen }
PlainDms == Tuple(<<IfdRational(1, 1), IfdRational(1, 1), IfdRational(1, 1)>>)
DmsValues ==
    { Tuple(items) : items \in [1..3 -> ExifComponents] }
    \cup { NoValue, IfdRational(1, 1),
           Tuple(<<IfdRational(1, 1), IfdRational(1, 1)>>) }
FewDms == { PlainDms,
            Tuple(<<PairTuple(1, 1), IfdRational(1, 0), IfdRational(1, 1)>>) }
StreamOffsets == {0, 1}
RefPairs ==
    { <<StrValue("N"), StrValue("E")>>, <<StrValue("S"), StrValue("W")>>,
      <<StrValue("S"), StrValue("E")>>, <<StrValue("N"), StrValue("W")>>,
      <<StrValue("s"), StrValue("w")>>, <<BytesValue("S"), BytesValue("W")>>,
      <<NoValue, NoValue>> }
DmsPairs == (DmsValues \X FewDms) \cup (FewDms \X DmsValues)
GpsDirectories ==
    { [t |-> "ifd", lat_ref |-> r[1], lat_dms |-> p[1],
       lon_ref |-> r[2], lon_dms |-> p[2]] : r \in RefPairs, p \in DmsPairs }
    \cup { [t |-> "empty"] }
ExifBlocks == { [t |-> "exif", gps |-> g] : g \in GpsDirectories }
              \cup { [t |-> "empty"] }
GpsFiles ==
    { [pos |-> pos, size |-> 1, image |-> "ok", exif |-> x] :
         pos \in StreamOffsets, x \in ExifBlocks }
    \cup { [pos |-> pos, size |-> 1, image |-> i, exif |-> [t |-> "empty"]] :
              pos \in StreamOffsets, i \in {"unreadable", "broken_exif"} }

InitGps ==
    /\ users = InitialUsers
    /\ today = FirstDay
    /\ events = {}
    /\ nextEventId = 1
    /\ files = {}
    /\ nextUuid = 0
    /\ sess = [r \in Workers |-> Idle]
    /\ last = NoResponse
    /\ goals = {}
    /\ specialDays = {}
    /\ probe \in { [fn |-> "upload", file |-> f] : f \in GpsFiles }
    /\ handles = StartedHandles

NextGps == ExtractGps

SpecGps == InitGps /\ [][NextGps]_vars

\* the reference tag reads S (W), in either case, as text or as bytes
RefIs(ref, letters) == ref.t \in {"str", "bytes"} /\ ref.s \in letters

\* every component of the triple has a value: a rational, or a pair with a
\* denominator other than 0
Convertible(dms) ==
    /\ dms.t = "tuple"
    /\ Len(dms.items) = 3
    /\ \A i \in 1..3 : /\ dms.items[i].t \in {"rational", "pair"}
                       /\ dms.items[i].t = "pair" => dms.items[i].d # 0

ZeroDenominator(dms) == \E i \in 1..3 : dms.items[i].d = 0

\* f is sign * (degrees + minutes / 60 + seconds / 3600) of the triple
SignedDegrees(f, sign, dms) ==
    LET c == dms.items
    IN IF ZeroDenominator(dms) THEN f = NaNFloat
       ELSE f = Float(sign * (3600 * c[1].n * c[2].d * c[3].d
                              + 60 * c[2].n * c[1].d * c[3].d
                              + c[3].n * c[1].d * c[2].d),
                      3600 * c[1].d * c[2].d * c[3].d)

SessionWorkers == {1, 2}

\* the event object of save_event after "event.updated_at = date.today()":
\* the row found with its text fields assigned, or a new Event added to the
\* session
EventInSession(slot, tdy) ==
    IF slot.loaded = NoRow
    THEN [table |-> "events", new |-> TRUE,
          row |-> [user_id |-> slot.req.user,
                   entry_date |-> ParsedDate(slot.req.entry_date),
                   title |-> slot.req.title, content |-> slot.req.content,
                   mood |-> MoodParam(slot.req.mood), updated_at |-> tdy]]
    ELSE [table |-> "events", new |-> FALSE,
          row |-> [slot.loaded EXCEPT !.title = slot.req.title,
                                      !.content = slot.req.content,
                                      !.mood = MoodParam(slot.req.mood),
                                      !.updated_at = tdy]]

\* what a handler leaves: the tables and files, the response, and the objects
\* of the session that were assigned and not committed
Outcome(evs, nid, fls, uuid, gls, days, resp, dirty) ==
    [events |-> evs, nextEventId |-> nid, files |-> fls, nextUuid |-> uuid,
     goals |-> gls, specialDays |-> days, resp |-> resp, dirty |-> dirty]

SaveEventOutcome(req, evs, nid, fls, uuid, gls, days, tdy) ==
    IF ~DateParses(req.entry_date)
    THEN Outcome(evs, nid, fls, uuid, gls, days, BadDateResponse("save_event"), {})
    ELSE LET slot == EventLookup(evs, req)
             out == SaveEventFinish(evs, fls, uuid, nid, slot, tdy)
         IN Outcome(out.events, out.nextEventId, out.files, out.nextUuid, gls, days,
                    out.resp,
                    IF out.resp.status = 200 THEN {}
                    ELSE {EventInSession(slot, tdy)})

UpdateGoalOutcome(call, evs, nid, fls, uuid, gls, days, tdy) ==
    IF OwnGoals(gls, call.id, call.user) = {}
    THEN Outcome(evs, nid, fls, uuid, gls, days, NotFound("update_goal"), {})
    ELSE LET goal == CHOOSE g \in OwnGoals(gls, call.id, call.user) : TRUE
             out == GoalAssigned(goal, call.upd, tdy)
         IN IF ~out.ok
            THEN Outcome(evs, nid, fls, uuid, gls, days,
                         BadDateResponse("update_goal"),
                         {[table |-> "goals", new |-> FALSE, row |-> out.goal]})
            ELSE Outcome(evs, nid, fls, uuid, (gls \ {goal}) \cup {out.goal}, days,
                         [op |-> "update_goal", status |-> 200, detail |-> "ok"],
                         {})

UpdateSpecialDayOutcome(call, evs, nid, fls, uuid, gls, days) ==
    IF OwnDay(days, call.id, call.user) = {}
    THEN Outcome(evs, nid, fls, uuid, gls, days,
                 NotFound("update_special_day"), {})
    ELSE LET day == CHOOSE d \in OwnDay(days, call.id, call.user) : TRUE
             out == DayAssigned(day, call.upd)
         IN IF ~out.ok
            THEN Outcome(evs, nid, fls, uuid, gls, days,
                         BadDateResponse("update_special_day"),
                         {[table |-> "special_days", new |-> FALSE,
                           row |-> out.day]})
            ELSE Outcome(evs, nid, fls, uuid, gls, (days \ {day}) \cup {out.day},
                         [op |-> "update_special_day", status |-> 200,
                          detail |-> "ok"],
                         {})

\* the handler of a call, from its first line to its return or raise
HandlerOutcome(call, evs, nid, fls, uuid, gls, days, tdy) ==
    IF call.op = "save_event"
    THEN SaveEventOutcome(call.req, evs, nid, fls, uuid, gls, days, tdy)
    ELSE IF call.op = "update_goal"
    THEN UpdateGoalOutcome(call, evs, nid, fls, uuid, gls, days, tdy)
    ELSE UpdateSpecialDayOutcome(call, evs, nid, fls, uuid, gls, days)

\* a get_db whose finally commits before it closes: the assigned objects of
\* the session are written to their table
CloseCommitting(rows, dirty, table) ==
    { IF \E d \in dirty : d.table = table /\ ~d.new /\ d.row.id = r.id
      THEN (CHOOSE d \in dirty : d.table = table /\ ~d.new /\ d.row.id = r.id).row
      ELSE r
      : r \in rows }

\* db.close() of a session made with autocommit=False: what was assigned and
\* not committed is rolled back, the table keeps its rows
CloseRolledBack(rows, dirty, table) == rows

\* the uploads of the save_event calls that have not run their handler yet
RECURSIVE UploadsInFlight(_)
UploadsInFlight(rs) ==
    IF rs = {} THEN 0
    ELSE LET r == CHOOSE x \in rs : TRUE
         IN (IF sess[r].pc = "handler" /\ sess[r].call.op = "save_event"
             THEN Len(AllImages(sess[r].call.req)) ELSE 0)
            + UploadsInFlight(rs \ {r})

UploadsOf(call) ==
    IF call.op = "save_event" THEN Len(AllImages(call.req)) ELSE 0

\* get_db up to its yield: the request of worker r gets a session of its own
GetDb(r, call) ==
    /\ sess[r] = Idle
    /\ handles.made <= MaxRequests
    /\ nextUuid + UploadsInFlight(SessionWorkers) + UploadsOf(call) <= MaxUploads
    /\ handles' = SessionOpened(handles)
    /\ sess' = [sess EXCEPT ![r] = [pc |-> "handler", call |-> call,
                                    db |-> handles.made + 1]]
    /\ UNCHANGED <<users, today, events, nextEventId, files, nextUuid, last,
                   goals, specialDays, probe>>

\* the handler runs with the session: it commits and returns, or raises
Handler(r) ==
    /\ sess[r] # Idle
    /\ sess[r].pc = "handler"
    /\ \E out \in {HandlerOutcome(sess[r].call, events, nextEventId, files,
                                   nextUuid, goals, specialDays, today)} :
          /\ events' = out.events
          /\ nextEventId' = out.nextEventId
          /\ files' = out.files
          /\ nextUuid' = out.nextUuid
          /\ goals' = out.goals
          /\ specialDays' = out.specialDays
          /\ sess' = [sess EXCEPT ![r] = [pc |-> "finally", call |-> sess[r].call,
                                          db |-> sess[r].db, resp |-> out.resp,
                                          dirty |-> out.dirty]]
    /\ UNCHANGED <<users, today, last, probe, handles>>

\* get_db after its yield: finally db.close(), on a return and on a raise
GetDbFinally(r) ==
    /\ sess[r] # Idle
    /\ sess[r].pc = "finally"
    /\ events' = CloseRolledBack(events, sess[r].dirty, "events")
    /\ goals' = CloseRolledBack(goals, sess[r].dirty, "goals")
    /\ specialDays' = CloseRolledBack(specialDays, sess[r].dirty, "special_days")
    /\ handles' = SessionClosed(handles, sess[r].db)
    /\ last' = [op |-> sess[r].call.op, status |-> sess[r].resp.status,
                detail |-> sess[r].resp.detail, call |-> sess[r].call,
                dirty |-> sess[r].dirty]
    /\ sess' = [sess EXCEPT ![r] = Idle]
    /\ UNCHANGED <<users, today, nextEventId, files, nextUuid, probe>>

\* the calls: saves of one entry that succeed and that fail in each way, and
\* updates of the first goal and the first special day with a date that does
\* not parse after other fields were assigned
SessionSave(title, image, dt) ==
    [op |-> "save_event",
     req |-> [user |-> 1, entry_date |-> dt, title |-> title, content |-> None,
              mood |-> None, image |-> image, images |-> <<>>,
              keep_images |-> NullText]]
RollbackCalls ==
    { SessionSave("Trip", NoUpload, D15), SessionSave("Walk", Oversized, D15),
      SessionSave("Walk", TextFile, D15), SessionSave("Walk", Corrupt, D15),
      SessionSave("Walk", NoUpload, NotADate),
      [op |-> "update_goal", user |-> 1, id |-> 1,
       upd |-> [NoUpdate EXCEPT !.text = Some("walk"), !.completed = Some(TRUE),
                                !.completed_at = Some(NotADate)]],
      [op |-> "update_special_day", user |-> 1, id |-> 1,
       upd |-> [NoDayUpdate EXCEPT !.title = Some("moved"),
                                   !.date = Some(Feb30)]] }

NextRollback ==
    \/ RowsLeft /\ CreateGoal(1, OwnerGoalBody)
    \/ RowsLeft /\ CreateSpecialDay(1, OwnerDayBody)
    \/ \E r \in SessionWorkers, call \in RollbackCalls : GetDb(r, call)
    \/ \E r \in SessionWorkers : Handler(r)
    \/ \E r \in SessionWorkers : GetDbFinally(r)

SpecRollback == Init /\ [][NextRollback]_vars

\* worker r is serving a request that ended in an error
Failing(r) ==
    /\ sess[r] # Idle
    /\ \/ sess[r].pc = "finally" /\ sess[r].resp.status >= 400
       \/ /\ sess[r].pc = "handler"
          /\ sess'[r] # Idle
          /\ sess'[r].pc = "finally" /\ sess'[r].resp.status >= 400

C22_Step ==
    \A r \in SessionWorkers :
       (Failing(r) /\ sess'[r] # sess[r]) =>
           UNCHANGED <<events, goals, specialDays>>

\* C22: a save_event, update_goal or update_special_day request that ends in
\* an error (date that does not parse, unsupported type, oversized file,
\* image that fails to decode) leaves the tables as they were, in the step
\* of its handler and in the close of its session: no Event is created and no
\* row of events, goals or special_days differs, although the handler had
\* assigned fields of the object in its session.
C22_FailedRequestKeepsRows == [][C22_Step]_vars

\* a save of a stored entry failed after its title was assigned in the
\* session, and an update_goal that failed on its date is about to close its
\* session with the text and the flag assigned; the rows are as stored
C22_Witness ==
    /\ last.op = "save_event" /\ last.status >= 400
    /\ \E d \in last.dirty :
          /\ ~d.new /\ d.row.title = "Walk"
          /\ \E e \in events : e.id = d.row.id /\ e.title = "Trip"
    /\ \E r \in SessionWorkers :
          /\ sess[r] # Idle
          /\ sess[r].pc = "finally" /\ sess[r].call.op = "update_goal"
          /\ \E d \in sess[r].dirty :
                /\ d.row.text = "walk" /\ d.row.completed
                /\ \E g \in goals : g.id = d.row.id /\ g.text = "run"

(***************************************************************************)
(* The fields update_goal leaves alone                                     *)
(***************************************************************************)
\* the text, the flag, the completion date and the week supplied or not,
\* the week as year and index together
GoalFrameUpdates ==
    { [text |-> t, completed |-> c, completed_at |-> at, week_year |-> w[1],
       week_index |-> w[2]]
      : t \in {Absent, Some("walk")}, c \in {Absent, Some(TRUE), Some(FALSE)},
        at \in {Absent, Some(D10)},
        w \in {<<Absent, Absent>>, <<Some(2024), Some(3)>>} }

NextGoalFrame ==
    \/ \E user \in Users : CreateGoal(user, OwnerGoalBody)
    \/ \E upd \in GoalFrameUpdates : UpdateGoal(1, 1, upd)
    \/ Tick

SpecGoalFrame == Init /\ [][NextGoalFrame]_vars

\* goal h is goal g with nothing changed that upd does not supply
GoalFrame(g, h, upd) ==
    /\ ~upd.text.set => h.text = g.text
    /\ ~upd.completed.set => h.completed = g.completed
    /\ ~upd.week_year.set => h.week_year = g.week_year
    /\ ~upd.week_index.set => h.week_index = g.week_index
    /\ (~upd.completed.set /\ ~upd.completed_at.set)
          => h.completed_at = g.completed_at
    /\ h.id = g.id /\ h.user_id = g.user_id /\ h.created_at = g.created_at

\* the step is, or follows, an update_goal that was served
C23_Step ==
    (last'.op = "update_goal" /\ last'.status = 200) =>
       \E g \in goals, h \in goals' :
          /\ g.id = last'.id /\ g.user_id = last'.user
          /\ GoalFrame(g, h, last'.upd)
          /\ goals' \ {h} = goals \ {g}

\* C23: a successful update_goal leaves unchanged each of text, completed,
\* week_year and week_index that the request does not supply, changes
\* completed_at only when the request supplies completed or completed_at,
\* and never changes the goal's id, user_id or created_at, nor another goal.
C23_GoalUpdateFrame == [][C23_Step]_vars

\* on a later day an update that supplied the week alone was served for a
\* goal whose text and flag earlier updates had set, next to a goal of
\* another user
C23_Witness ==
    /\ last.op = "update_goal" /\ last.status = 200
    /\ ~last.upd.text.set /\ ~last.upd.completed.set /\ ~last.upd.completed_at.set
    /\ last.upd.week_year.set
    /\ \E g \in goals :
          /\ g.id = last.id /\ g.user_id = 1
          /\ g.text = "walk" /\ g.completed /\ g.completed_at = ParsedDate(D10)
          /\ g.week_year = Some(2024)
          /\ g.created_at # today
    /\ \E h \in goals : h.user_id = 2

(***************************************************************************)
(* The session of a request is opened and closed with the request          *)
(***************************************************************************)
\* a save that is served, a save refused for its size, a save that fails in
\* processing, and an update of a goal that is not stored
HandleCalls ==
    { SessionSave("Trip", NoUpload, D15), SessionSave("Walk", Oversized, D15),
      SessionSave("Walk", Corrupt, D15),
      [op |-> "update_goal", user |-> 1, id |-> 1,
       upd |-> [NoUpdate EXCEPT !.text = Some("walk")]] }

NextHandles ==
    \/ \E r \in SessionWorkers, call \in HandleCalls : GetDb(r, call)
    \/ \E r \in SessionWorkers : Handler(r)
    \/ \E r \in SessionWorkers : GetDbFinally(r)

\* Handler(r) is enabled exactly in these states
HandlerReady(r) == sess[r] # Idle /\ sess[r].pc = "handler"

\* a handler that was entered runs to its return or raise, and the generator
\* get_db is then resumed: weak fairness of Handler(r), with its enabling
\* condition written out, and of GetDbFinally(r)
SpecHandles ==
    /\ Init
    /\ [][NextHandles]_vars
    /\ \A r \in SessionWorkers :
          /\ []<>(~HandlerReady(r)) \/ []<><<Handler(r)>>_vars
          /\ WF_vars(GetDbFinally(r))

InFlight == { r \in SessionWorkers : sess[r] # Idle }

\* the open sessions are those of the requests in flight, one each
HandlesOwned ==
    /\ handles.open = { sess[r].db : r \in InFlight }
    /\ \A r \in InFlight, q \in InFlight : r # q => sess[r].db # sess[q].db

\* C24: every request gets a database session of its own at its start, no
\* session belongs to two requests or stays open once its request is over,
\* and every session that is open is eventually closed, whether the handler
\* returned or raised a client error or a processing error.
C24_HandleReleased ==
    /\ []HandlesOwned
    /\ \A db \in 1..(MaxRequests + 1) :
          (db \in handles.open) ~> (db \notin handles.open)

\* the session of a request that failed is closed while the session of a
\* later request is open
C24_Witness ==
    /\ last.op = "save_event" /\ last.status = 500
    /\ \E r \in InFlight :
          /\ sess[r].pc = "finally" /\ sess[r].resp.status = 200
          /\ handles.open = {sess[r].db}
    /\ handles.made > Cardinality(handles.open) + 2

(***************************************************************************)
(* The administrator: create_initial_admin at startup                      *)
(***************************************************************************)
\* a startup that adds the administrator without looking at the table
create_initial_admin_unchecked(us) ==
    [created |-> TRUE,
     users |-> us \cup { NewUser(NewId(us), DEFAULT_ADMIN_USERNAME,
                                 get_password_hash(DEFAULT_ADMIN_PASSWORD, 1),
                                 TRUE, <<1990, 1, 1>>) }]

\* create_initial_admin(db): what it returns and the table it leaves
create_initial_admin(us) ==
    IF us # {} THEN [created |-> FALSE, users |-> us]
    ELSE [created |-> TRUE, users |-> InitialUsers]

\* the application starts: lifespan makes a session, calls
\* create_initial_admin and closes the session
Lifespan ==
    /\ handles.made <= MaxRequests
    /\ \E out \in {create_initial_admin(users)} :
          /\ users' = out.users
          /\ last' = [op |-> "lifespan", created |-> out.created]
    /\ handles' = SessionClosed(SessionOpened(handles), handles.made + 1)
    /\ UNCHANGED <<today, events, nextEventId, files, nextUuid, sess, goals,
                   specialDays, probe>>

\* a database that no startup has touched
InitEmpty ==
    /\ users = {}
    /\ today = FirstDay
    /\ events = {}
    /\ nextEventId = 1
    /\ files = {}
    /\ nextUuid = 0
    /\ sess = [r \in Workers |-> Idle]
    /\ last = NoResponse
    /\ goals = {}
    /\ specialDays = {}
    /\ probe = NoProbe
    /\ handles = [made |-> 0, open |-> {}]

\* the users beside the administrator number fewer than MaxRows
UsersLeft == Cardinality(users) <= MaxRows

NextAdmin ==
    \/ Lifespan
    \/ \E user \in Callers, username \in {"bob", DEFAULT_ADMIN_USERNAME} :
          UsersLeft /\ Register(user, username, DEFAULT_ADMIN_PASSWORD)
    \/ \E user \in Callers : UpdateUserMe(user, ProfileOf)
    \/ \E user \in Callers : ChangePassword(user, PasswordOf)
    \/ \E user \in Callers : UploadAvatar(user, AvatarOf)

SpecAdmin == InitEmpty /\ [][NextAdmin]_vars

Admins(us) == { u \in us : u.is_admin }

\* at most one administrator, and it is the user the first startup created
OneAdmin ==
    /\ Cardinality(Admins(users)) <= 1
    /\ \A u \in Admins(users) :
          u.id = 1 /\ u.username = DEFAULT_ADMIN_USERNAME
    /\ handles.made > 0 => Admins(users) # {}

C25_Step ==
    /\ \A u \in users : \E v \in users' : v.id = u.id /\ v.is_admin = u.is_admin
    /\ \A v \in users' :
          (\A u \in users : u.id # v.id) => (v.is_admin <=> users = {})
    /\ Lifespan =>
          IF users = {} THEN Cardinality(users') = 1 /\ Admins(users') = users'
          ELSE users' = users

\* C25: create_initial_admin creates one administrator iff the users table is
\* empty and changes nothing at a later startup, register creates users that
\* are no administrators, and no operation changes is_admin of a stored
\* user: at most one administrator exists, the user of the first startup.
C25_AdminFixed == []OneAdmin /\ [][C25_Step]_vars

\* after a second startup the administrator, whose password and profile
\* were changed, is the only one of the two users
C25_Witness ==
    /\ last.op = "lifespan" /\ ~last.created
    /\ handles.made > 1
    /\ Cardinality(users) = 2
    /\ \E u \in users :
          /\ u.is_admin /\ u.nickname = "Al"
          /\ u.hashed_password.digest = Secret6
          /\ u.avatar_url # None
    /\ \E u \in users : ~u.is_admin /\ u.nickname = "Al"

(***************************************************************************)
(* save_event replaces the text fields of a stored entry                   *)
(***************************************************************************)
\* entry f is entry e with the text fields of the request: what the request
\* omits is null, an omitted mood is "neutral"
TextReplaced(e, f, req) ==
    /\ f.title = req.title
    /\ f.content = req.content
    /\ f.mood = (IF req.mood = None THEN "neutral" ELSE req.mood)
    /\ f.id = e.id /\ f.user_id = e.user_id /\ f.entry_date = e.entry_date

\* the step is, or follows, a save_event that was served
C26_Step ==
    (last'.op = "save_event" /\ last'.status = 200) =>
       \A e \in events :
          (/\ e.user_id = last'.req.user
           /\ e.entry_date = ParsedDate(last'.req.entry_date))
          => \E f \in events' :
                /\ TextReplaced(e, f, last'.req)
                /\ events' \ {f} = events \ {e}

\* C26: a successful save_event for a stored (user, date) entry leaves that
\* entry with the title and content of the request, null where the request
\* omits them, and the mood of the request or "neutral", with its id,
\* user_id and entry_date unchanged, and changes no other entry.
C26_TextOverwritten == [][C26_Step]_vars

\* a save without text fields was served for a stored entry, which now has
\* no title, no content and the mood neutral, next to the entry of another
\* user that has all three
C26_Witness ==
    /\ last.op = "save_event" /\ last.status = 200 /\ last.existed
    /\ last.req.title = None /\ last.req.content = None /\ last.req.mood = None
    /\ \E e \in events, f \in events :
          /\ e.user_id = last.req.user
          /\ e.title = None /\ e.content = None /\ e.mood = "neutral"
          /\ e.updated_at # FirstDay
          /\ f.user_id # e.user_id
          /\ f.title = "Trip" /\ f.content = "Sea" /\ f.mood = "happy"

====
